---- MODULE Spec2Model ----
(***************************************************************************)
(* Keyspace engine of the RESP cache server: store.py, hash_store.py,      *)
(* zset_store.py and the command handlers of commands.py,                   *)
(* hash_commands.py and zset_commands.py.                                   *)
(*                                                                          *)
(* Time is counted in ticks of half a second: time.time() is `now`, an     *)
(* expires_at is a tick count, and a ttl of s seconds is 2*s ticks.        *)
(* Python dicts whose order no handler of this model observes (the          *)
(* keyspace, SortedSet.scores) are functions; a hash's inner dict is the    *)
(* sequence of its (field, value) items in insertion order; Optional[x] is *)
(* <<>> (None) or <<x>>.                                                    *)
(***************************************************************************)
EXTENDS Integers, Sequences, FiniteSets, TLC

VARIABLES store, now, last

\* the codec at work on one value: the RESP value, its bytes on the wire and
\* the outcome of parsing them
VARIABLES resp, wire, received

\* the server: the holder of state._lock and, per connection, the state of
\* its handle_client task
VARIABLES lock, conn

\* the keyspace as Python objects: the objects allocated so far, each with
\* its content, by address; the reference state._store holds; and the
\* reference a handler holds with the keyspace it saw when it read it
VARIABLES heap, root, held

codecVars == <<resp, wire, received>>
serverVars == <<lock, conn>>
objectVars == <<heap, root, held>>
vars == <<store, now, last, resp, wire, received, lock, conn, heap, root, held>>

\* ------------------------------------------------------------------------
\* Bounds and input domains
\* ------------------------------------------------------------------------

\* the clock stops after MaxNow ticks
MaxNow == 3
\* no command is issued that makes a ranked list longer than MaxRanked
MaxRanked == 2
\* no command is issued that takes a stored number or score beyond MaxNum
MaxNum == 2

Fields == {"f1", "f2"}
\* members in bytewise order
MemberOrder == <<"a", "b">>
Members == {MemberOrder[i] : i \in 1..Len(MemberOrder)}

None == <<>>
Some(x) == <<x>>

Max(a, b) == IF a >= b THEN a ELSE b
Min(a, b) == IF a <= b THEN a ELSE b

\* ------------------------------------------------------------------------
\* Text <-> number conversions (str(), int(), float())
\* ------------------------------------------------------------------------

\* the decimal texts of -3 .. 6, in order
Decimal == <<"-3", "-2", "-1", "0", "1", "2", "3", "4", "5", "6">>

\* str(n) for an int n; f"{x:.17g}" and _format_score agree with it on
\* integral values
str(n) == Decimal[n + 4]

\* int(text): Some(n), or None when int() raises ValueError. int() also
\* accepts a leading "+" and leading zeros.
int(text) ==
    IF \E i \in 1..Len(Decimal) : Decimal[i] = text
    THEN Some((CHOOSE i \in 1..Len(Decimal) : Decimal[i] = text) - 4)
    ELSE IF text = "+1" THEN Some(1)
    ELSE IF text = "01" THEN Some(1)
    ELSE None

\* float(text) on the integral texts; None when float() raises
float(text) ==
    IF text = "1000" THEN Some(1000)
    ELSE IF text = "500" THEN Some(500)
    ELSE int(text)

\* int(x) of a float x = ticks/2 seconds: truncation toward zero
IntOfSeconds(ticks) ==
    IF ticks >= 0 THEN ticks \div 2 ELSE -((-ticks) \div 2)

\* str.upper() on the option words the handlers compare
upper(text) ==
    CASE text = "ex" -> "EX"
      [] text = "px" -> "PX"
      [] text = "nx" -> "NX"
      [] text = "xx" -> "XX"
      [] text = "gt" -> "GT"
      [] text = "lt" -> "LT"
      [] text = "ch" -> "CH"
      [] OTHER -> text

\* ------------------------------------------------------------------------
\* Values and replies
\* ------------------------------------------------------------------------

StrVal(text) == [kind |-> "str", text |-> text]
HashVal(inner) == [kind |-> "hash", inner |-> inner]
\* SortedSet(scores, ranked)
SortedSet(scores, ranked) == [kind |-> "zset", scores |-> scores, ranked |-> ranked]
\* StoreEntry(value, expires_at)
StoreEntry(value, expires_at) == [value |-> value, expires_at |-> expires_at]

make_store == << >>

_make_zset == SortedSet(<< >>, << >>)

_wrong_type == "WRONGTYPE Operation against a key holding the wrong kind of value"
\* a text a client may store that begins with the same word
WrongTypeLike == "WRONGTYPE is a word"
\* text.startswith("WRONGTYPE"), on the texts the model holds
startswith_WRONGTYPE(text) == text \in {_wrong_type, WrongTypeLike}

IntReply(n) == [t |-> "int", v |-> n]
BulkString(v) == [t |-> "bulk", v |-> v]
SimpleString(s) == [t |-> "simple", v |-> s]
RESPError(msg) == [t |-> "err", v |-> msg]
\* an array reply; the order of a KEYS reply is the dict order, which the
\* model leaves out, so the items are a set
RESPArraySet(items) == [t |-> "array", v |-> items]
\* the items of an array reply or request, in order
RESPArray(items) == [t |-> "array", v |-> items]
\* the handler raised an exception instead of returning
Raised(exc) == [t |-> "raise", v |-> exc]
OK == SimpleString("OK")


\* ------------------------------------------------------------------------
\* store.py
\* ------------------------------------------------------------------------

\* {**store, key: entry}
DictPut(d, key, entry) ==
    [x \in (DOMAIN d) \cup {key} |-> IF x = key THEN entry ELSE d[x]]

\* {k: v for k, v in store.items() if k not in keys}
DictWithout(d, keys) ==
    [x \in (DOMAIN d) \ keys |-> d[x]]

\* store_get without the expiry test
store_get_ignores_expiry(s, t, key) ==
    IF key \notin DOMAIN s THEN None ELSE Some(s[key])

store_get(s, t, key) ==
    IF key \notin DOMAIN s THEN None
    ELSE IF s[key].expires_at # None /\ t > s[key].expires_at[1] THEN None
    ELSE Some(s[key])

store_set(s, t, key, value, ttl_ticks) ==
    LET expires_at == IF ttl_ticks # None THEN Some(t + ttl_ticks[1]) ELSE None
    IN  DictPut(s, key, StoreEntry(value, expires_at))

SeqCount(seq, P(_)) == Cardinality({i \in 1..Len(seq) : P(seq[i])})
SeqSet(seq) == {seq[i] : i \in 1..Len(seq)}

\* store_delete that removes only the first key named
store_delete_first_only(s, keys) ==
    LET deleted == SeqCount(keys, LAMBDA k : k \in DOMAIN s)
    IN  [store |-> DictWithout(s, IF keys = << >> THEN {} ELSE {keys[1]}), count |-> deleted]

store_delete(s, keys) ==
    LET deleted == SeqCount(keys, LAMBDA k : k \in DOMAIN s)
    IN  [store |-> DictWithout(s, SeqSet(keys)), count |-> deleted]

store_exists(s, t, keys) ==
    SeqCount(keys, LAMBDA k : store_get(s, t, k) # None)

\* fnmatch.fnmatch(name, pattern) for the patterns the model issues
fnmatch(name, pattern) ==
    CASE pattern = "*" -> TRUE
      [] pattern = "k1*" -> name = "k1"
      [] pattern = "f1*" -> name = "f1"
      [] OTHER -> name = pattern

store_keys(s, t, pattern) ==
    {k \in DOMAIN s :
        /\ fnmatch(k, pattern)
        /\ (s[k].expires_at = None \/ s[k].expires_at[1] > t)}

store_ttl(s, t, key) ==
    IF key \notin DOMAIN s THEN -2
    ELSE IF s[key].expires_at = None THEN -1
    ELSE Max(0, IntOfSeconds(s[key].expires_at[1] - t))

\* ------------------------------------------------------------------------
\* hash_store.py
\* ------------------------------------------------------------------------

\* f in inner
HasField(inner, f) == \E i \in 1..Len(inner) : inner[i][1] = f

\* inner[f]
FieldValue(inner, f) == inner[CHOOSE i \in 1..Len(inner) : inner[i][1] = f][2]

\* inner[f] = v: an existing field keeps its position, a new one goes last
PutField(inner, f, v) ==
    IF HasField(inner, f)
    THEN [i \in 1..Len(inner) |-> IF inner[i][1] = f THEN <<f, v>> ELSE inner[i]]
    ELSE Append(inner, <<f, v>>)

\* inner.pop(f, None)
PopField(inner, f) == SelectSeq(inner, LAMBDA p : p[1] # f)

\* for field, value in pairs: inner[field] = value
RECURSIVE PutFields(_, _)
PutFields(inner, pairs) ==
    IF pairs = << >> THEN inner
    ELSE PutFields(PutField(inner, pairs[1][1], pairs[1][2]), Tail(pairs))

\* for f in fields: inner.pop(f, None)
RECURSIVE PopFields(_, _)
PopFields(inner, fields) ==
    IF fields = << >> THEN inner
    ELSE PopFields(PopField(inner, fields[1]), Tail(fields))

\* [tag "none"] for an absent (or expired) key, [tag "err"] for a key of
\* another kind, else the inner dict
_get_hash(s, t, key) ==
    LET entry == store_get(s, t, key)
    IN  IF entry = None THEN [tag |-> "none"]
        ELSE IF entry[1].value.kind # "hash" THEN [tag |-> "err", msg |-> _wrong_type]
        ELSE [tag |-> "ok", inner |-> entry[1].value.inner]

_put_hash(s, key, inner) ==
    LET expires_at == IF key \in DOMAIN s THEN s[key].expires_at ELSE None
    IN  DictPut(s, key, StoreEntry(HashVal(inner), expires_at))

\* dict(inner) if inner else {}
InnerOrEmpty(got) == IF got.tag = "ok" THEN got.inner ELSE << >>

hash_set(s, t, key, field_value_pairs) ==
    LET got == _get_hash(s, t, key)
        inner == InnerOrEmpty(got)
        added == SeqCount(field_value_pairs, LAMBDA p : ~HasField(inner, p[1]))
    IN  IF got.tag = "err" THEN [store |-> s, result |-> got]
        ELSE [store |-> _put_hash(s, key, PutFields(inner, field_value_pairs)),
              result |-> [tag |-> "int", n |-> added]]

hash_setnx(s, t, key, field, value) ==
    LET got == _get_hash(s, t, key)
        inner == InnerOrEmpty(got)
    IN  IF got.tag = "err" THEN [store |-> s, result |-> got]
        ELSE IF HasField(inner, field) THEN [store |-> s, result |-> [tag |-> "int", n |-> 0]]
        ELSE [store |-> _put_hash(s, key, PutField(inner, field, value)),
              result |-> [tag |-> "int", n |-> 1]]

\* hash_del without the removal of a key whose hash became empty
hash_del_keeps_empty(s, t, key, fields) ==
    LET got == _get_hash(s, t, key)
        inner == InnerOrEmpty(got)
        deleted == SeqCount(fields, LAMBDA f : HasField(inner, f))
    IN  IF got.tag = "err" THEN [store |-> s, result |-> got]
        ELSE IF got.tag = "none" THEN [store |-> s, result |-> [tag |-> "int", n |-> 0]]
        ELSE [store |-> _put_hash(s, key, PopFields(inner, fields)),
              result |-> [tag |-> "int", n |-> deleted]]

hash_del(s, t, key, fields) ==
    LET got == _get_hash(s, t, key)
        inner == InnerOrEmpty(got)
        deleted == SeqCount(fields, LAMBDA f : HasField(inner, f))
        left == PopFields(inner, fields)
    IN  IF got.tag = "err" THEN [store |-> s, result |-> got]
        ELSE IF got.tag = "none" THEN [store |-> s, result |-> [tag |-> "int", n |-> 0]]
        ELSE IF left = << >>
        THEN [store |-> DictWithout(s, {key}), result |-> [tag |-> "int", n |-> deleted]]
        ELSE [store |-> _put_hash(s, key, left), result |-> [tag |-> "int", n |-> deleted]]

hash_incrby(s, t, key, field, increment) ==
    LET got == _get_hash(s, t, key)
        inner == InnerOrEmpty(got)
        current == IF HasField(inner, field) THEN FieldValue(inner, field) ELSE "0"
        parsed == int(current)
    IN  IF got.tag = "err" THEN [store |-> s, result |-> got]
        ELSE IF parsed = None
        THEN [store |-> s, result |-> [tag |-> "err", msg |-> "ERR hash value is not an integer"]]
        ELSE [store |-> _put_hash(s, key, PutField(inner, field, str(parsed[1] + increment))),
              result |-> [tag |-> "int", n |-> parsed[1] + increment]]

hash_incrbyfloat(s, t, key, field, increment) ==
    LET got == _get_hash(s, t, key)
        inner == InnerOrEmpty(got)
        current == IF HasField(inner, field) THEN FieldValue(inner, field) ELSE "0"
        parsed == float(current)
    IN  IF got.tag = "err" THEN [store |-> s, result |-> got]
        ELSE IF parsed = None
        THEN [store |-> s, result |-> [tag |-> "err", msg |-> "ERR hash value is not a float"]]
        ELSE [store |-> _put_hash(s, key, PutField(inner, field, str(parsed[1] + increment))),
              result |-> [tag |-> "text", text |-> str(parsed[1] + increment)]]

\* None or the error string of _get_hash, else inner.get(field)
hash_get(s, t, key, field) ==
    LET got == _get_hash(s, t, key)
    IN  IF got.tag # "ok" THEN got
        ELSE IF HasField(got.inner, field)
        THEN [tag |-> "text", text |-> FieldValue(got.inner, field)]
        ELSE [tag |-> "none"]

\* len(inner) if inner else 0
hash_len(s, t, key) ==
    LET got == _get_hash(s, t, key)
    IN  IF got.tag = "err" THEN got
        ELSE [tag |-> "int", n |-> Len(InnerOrEmpty(got))]

\* [(f, v) for f, v in inner.items() if fnmatch.fnmatch(f, match)]
RECURSIVE Matching(_, _)
Matching(inner, match) ==
    IF inner = << >> THEN << >>
    ELSE (IF fnmatch(inner[1][1], match) THEN <<inner[1]>> ELSE << >>)
            \o Matching(Tail(inner), match)

\* Python's seq[start:end], a negative index counted from the end
Slice(seq, start, end) ==
    LET from == IF start < 0 THEN Max(0, Len(seq) + start) ELSE Min(start, Len(seq))
        to == IF end < 0 THEN Max(0, Len(seq) + end) ELSE Min(end, Len(seq))
    IN  SubSeq(seq, from + 1, to)

\* the flat list field, value, ... of a page
RECURSIVE FlatPairs(_)
FlatPairs(page) ==
    IF page = << >> THEN << >> ELSE <<page[1][1], page[1][2]>> \o FlatPairs(Tail(page))

\* HSCAN: the cursor is an offset into the filtered field sequence; the
\* next cursor is cursor + count, or 0 when that is not below the length
hash_scan(s, t, key, cursor, match, count) ==
    LET got == _get_hash(s, t, key)
    IN  IF got.tag = "err" THEN got
        ELSE IF InnerOrEmpty(got) = << >>
        THEN [tag |-> "scan", next_cursor |-> 0, flat |-> << >>]
        ELSE LET all_items == Matching(got.inner, match)
                 end == cursor + count
             IN  [tag |-> "scan",
                  next_cursor |-> IF end < Len(all_items) THEN end ELSE 0,
                  flat |-> FlatPairs(Slice(all_items, cursor, end))]

\* ------------------------------------------------------------------------
\* zset_store.py
\* ------------------------------------------------------------------------

MemberIdx(m) == CHOOSE i \in 1..Len(MemberOrder) : MemberOrder[i] = m

\* Python's tuple order on (score, member)
TupleLess(a, b) ==
    \/ a[1] < b[1]
    \/ a[1] = b[1] /\ MemberIdx(a[2]) < MemberIdx(b[2])

\* bisect.bisect_left(a, x): lo and hi are 0-based as in Python
RECURSIVE BisectLeftFrom(_, _, _, _)
BisectLeftFrom(a, x, lo, hi) ==
    IF lo >= hi THEN lo
    ELSE LET mid == (lo + hi) \div 2
         IN  IF TupleLess(a[mid + 1], x)
             THEN BisectLeftFrom(a, x, mid + 1, hi)
             ELSE BisectLeftFrom(a, x, lo, mid)

bisect_left(a, x) == BisectLeftFrom(a, x, 0, Len(a))

\* bisect.bisect_right(a, x)
RECURSIVE BisectRightFrom(_, _, _, _)
BisectRightFrom(a, x, lo, hi) ==
    IF lo >= hi THEN lo
    ELSE LET mid == (lo + hi) \div 2
         IN  IF TupleLess(x, a[mid + 1])
             THEN BisectRightFrom(a, x, lo, mid)
             ELSE BisectRightFrom(a, x, mid + 1, hi)

\* a.insert(idx, x), idx 0-based
ListInsert(a, idx, x) ==
    SubSeq(a, 1, idx) \o <<x>> \o SubSeq(a, idx + 1, Len(a))

\* a.pop(idx), idx 0-based
ListPop(a, idx) ==
    SubSeq(a, 1, idx) \o SubSeq(a, idx + 2, Len(a))

\* bisect.insort(a, x)
insort(a, x) == ListInsert(a, BisectRightFrom(a, x, 0, Len(a)), x)

\* idx = bisect_left(ranked, old_key);
\* if idx < len(ranked) and ranked[idx] == old_key: ranked.pop(idx)
RemoveRanked(ranked, old_key) ==
    LET idx == bisect_left(ranked, old_key)
    IN  IF idx < Len(ranked) /\ ranked[idx + 1] = old_key
        THEN ListPop(ranked, idx)
        ELSE ranked

\* _get_zset that takes a key of another kind for an absent key
_get_zset_other_kind_absent(s, t, key) ==
    LET entry == store_get(s, t, key)
    IN  IF entry = None \/ entry[1].value.kind # "zset" THEN [tag |-> "none"]
        ELSE [tag |-> "ok", zset |-> entry[1].value]

_get_zset(s, t, key) ==
    LET entry == store_get(s, t, key)
    IN  IF entry = None THEN [tag |-> "none"]
        ELSE IF entry[1].value.kind # "zset" THEN [tag |-> "err", msg |-> _wrong_type]
        ELSE [tag |-> "ok", zset |-> entry[1].value]

\* _put_zset that writes the entry without the existing expires_at
_put_zset_drops_expiry(s, key, zset) ==
    DictPut(s, key, StoreEntry(zset, None))

_put_zset(s, key, zset) ==
    LET expires_at == IF key \in DOMAIN s THEN s[key].expires_at ELSE None
    IN  DictPut(s, key, StoreEntry(zset, expires_at))

\* zset or _make_zset()
ZsetOrEmpty(got) == IF got.tag = "ok" THEN got.zset ELSE _make_zset

\* one iteration of the loop without the GT test
ZAddPair_without_gt(acc, member, score, nx, xx, gt, lt) ==
    LET is_new == member \notin DOMAIN acc.scores
        existing_score == IF is_new THEN 0 ELSE acc.scores[member]
        differs == ~is_new /\ score # existing_score
    IN  IF nx /\ ~is_new THEN acc
        ELSE IF xx /\ is_new THEN acc
        ELSE IF lt /\ ~is_new /\ score >= existing_score THEN acc
        ELSE [scores |-> DictPut(acc.scores, member, score),
              ranked |-> insort(IF differs
                                THEN RemoveRanked(acc.ranked, <<existing_score, member>>)
                                ELSE acc.ranked,
                                <<score, member>>),
              added |-> IF is_new THEN acc.added + 1 ELSE acc.added,
              changed |-> IF is_new \/ differs THEN acc.changed + 1 ELSE acc.changed]

\* one iteration of zset_add's loop on the pair (member, score); acc holds the
\* loop's scores, ranked, added and changed
ZAddPair(acc, member, score, nx, xx, gt, lt) ==
    LET is_new == member \notin DOMAIN acc.scores
        existing_score == IF is_new THEN 0 ELSE acc.scores[member]
        differs == ~is_new /\ score # existing_score
    IN  IF nx /\ ~is_new THEN acc
        ELSE IF xx /\ is_new THEN acc
        ELSE IF gt /\ ~is_new /\ score <= existing_score THEN acc
        ELSE IF lt /\ ~is_new /\ score >= existing_score THEN acc
        ELSE [scores |-> DictPut(acc.scores, member, score),
              ranked |-> insort(IF differs
                                THEN RemoveRanked(acc.ranked, <<existing_score, member>>)
                                ELSE acc.ranked,
                                <<score, member>>),
              added |-> IF is_new THEN acc.added + 1 ELSE acc.added,
              changed |-> IF is_new \/ differs THEN acc.changed + 1 ELSE acc.changed]

\* for member, score in member_score_pairs: ...
RECURSIVE ZAddLoop(_, _, _, _, _, _)
ZAddLoop(acc, pairs, nx, xx, gt, lt) ==
    IF pairs = << >> THEN acc
    ELSE ZAddLoop(ZAddPair(acc, pairs[1][1], pairs[1][2], nx, xx, gt, lt),
                  Tail(pairs), nx, xx, gt, lt)

zset_add(s, t, key, member_score_pairs, nx, xx, gt, lt, ch) ==
    LET got == _get_zset(s, t, key)
        zset == ZsetOrEmpty(got)
        acc == ZAddLoop([scores |-> zset.scores, ranked |-> zset.ranked,
                         added |-> 0, changed |-> 0],
                        member_score_pairs, nx, xx, gt, lt)
    IN  IF got.tag = "err" THEN [store |-> s, result |-> got]
        ELSE [store |-> _put_zset(s, key, SortedSet(acc.scores, acc.ranked)),
              result |-> [tag |-> "int", n |-> IF ch THEN acc.changed ELSE acc.added]]

\* one iteration of zset_rem's loop
ZRemMember(acc, member) ==
    IF member \notin DOMAIN acc.scores THEN acc
    ELSE [scores |-> DictWithout(acc.scores, {member}),
          ranked |-> RemoveRanked(acc.ranked, <<acc.scores[member], member>>),
          removed |-> acc.removed + 1]

RECURSIVE ZRemLoop(_, _)
ZRemLoop(acc, members) ==
    IF members = << >> THEN acc
    ELSE ZRemLoop(ZRemMember(acc, members[1]), Tail(members))

zset_rem(s, t, key, members) ==
    LET got == _get_zset(s, t, key)
        zset == ZsetOrEmpty(got)
        acc == ZRemLoop([scores |-> zset.scores, ranked |-> zset.ranked, removed |-> 0],
                        members)
    IN  IF got.tag = "err" THEN [store |-> s, result |-> got]
        ELSE IF got.tag = "none" THEN [store |-> s, result |-> [tag |-> "int", n |-> 0]]
        ELSE IF DOMAIN acc.scores = {}
        THEN [store |-> DictWithout(s, {key}), result |-> [tag |-> "int", n |-> acc.removed]]
        ELSE [store |-> _put_zset(s, key, SortedSet(acc.scores, acc.ranked)),
              result |-> [tag |-> "int", n |-> acc.removed]]

zset_incrby(s, t, key, member, increment) ==
    LET got == _get_zset(s, t, key)
        zset == ZsetOrEmpty(got)
        current == IF member \in DOMAIN zset.scores THEN zset.scores[member] ELSE 0
        new_score == current + increment
        res == zset_add(s, t, key, <<<<member, new_score>>>>, FALSE, FALSE, FALSE, FALSE, FALSE)
    IN  IF got.tag = "err" THEN [store |-> s, result |-> got]
        ELSE IF res.result.tag = "err" THEN [store |-> s, result |-> res.result]
        ELSE [store |-> res.store, result |-> [tag |-> "score", score |-> new_score]]

zset_score(s, t, key, member) ==
    LET got == _get_zset(s, t, key)
    IN  IF got.tag = "err" THEN got
        ELSE IF got.tag = "none" THEN [tag |-> "none"]
        ELSE IF member \in DOMAIN got.zset.scores
        THEN [tag |-> "score", score |-> got.zset.scores[member]]
        ELSE [tag |-> "none"]

\* ZRANK / ZREVRANK: the position bisect_left finds for (score, member),
\* counted from the other end when reverse
zset_rank(s, t, key, member, reverse) ==
    LET got == _get_zset(s, t, key)
    IN  IF got.tag = "err" THEN got
        ELSE IF got.tag = "none" \/ member \notin DOMAIN got.zset.scores
        THEN [tag |-> "none"]
        ELSE LET score == got.zset.scores[member]
                 idx == bisect_left(got.zset.ranked, <<score, member>>)
             IN  [tag |-> "int",
                  n |-> IF reverse THEN Len(got.zset.ranked) - 1 - idx ELSE idx]

\* len(zset.scores) if zset else 0
zset_card(s, t, key) ==
    LET got == _get_zset(s, t, key)
    IN  IF got.tag = "err" THEN got
        ELSE [tag |-> "int", n |-> Cardinality(DOMAIN ZsetOrEmpty(got).scores)]

\* _format_score(score): an integral score is written without a decimal
\* point
_format_score(score) == str(score)

\* the flat list of a page: member, or member and formatted score
RECURSIVE PageItems(_, _)
PageItems(page, with_scores) ==
    IF page = << >> THEN << >>
    ELSE (IF with_scores THEN <<page[1][2], _format_score(page[1][1])>> ELSE <<page[1][2]>>)
            \o PageItems(Tail(page), with_scores)

\* list(reversed(page))
reversed(page) == [i \in 1..Len(page) |-> page[Len(page) + 1 - i]]

\* ZRANGE / ZREVRANGE by rank index: negative indexes count from the end,
\* stop is cut at length - 1, the page ranked[start : stop + 1] is reversed
\* after slicing
zset_range(s, t, key, start, stop, with_scores, reverse) ==
    LET got == _get_zset(s, t, key)
    IN  IF got.tag = "err" THEN got
        ELSE IF got.tag = "none" THEN [tag |-> "list", items |-> << >>]
        ELSE LET ranked == got.zset.ranked
                 length == Len(ranked)
                 start1 == IF start < 0 THEN Max(0, length + start) ELSE start
                 stop1 == IF stop < 0 THEN length + stop ELSE stop
                 stop2 == Min(stop1, length - 1)
                 page == SubSeq(ranked, start1 + 1, stop2 + 1)
             IN  IF start1 > stop2 THEN [tag |-> "list", items |-> << >>]
                 ELSE [tag |-> "list",
                       items |-> PageItems(IF reverse THEN reversed(page) ELSE page,
                                           with_scores)]

\* a float that may be infinite: <<-1, 0>> is -inf, <<0, n>> is n, <<1, 0>>
\* is +inf; FloatLess is the order of floats on them
Finite(n) == <<0, n>>
FloatLess(a, b) == a[1] < b[1] \/ (a[1] = b[1] /\ a[2] < b[2])

\* float(text) where the text may also be written as an infinity
float_or_inf(text) ==
    IF text = "-inf" THEN Some(<<-1, 0>>)
    ELSE IF text = "+inf" \/ text = "inf" THEN Some(<<1, 0>>)
    ELSE IF float(text) = None THEN None
    ELSE Some(Finite(float(text)[1]))

\* the texts that follow a "(" in the bounds the clients send
BoundTexts == {Decimal[i] : i \in 1..Len(Decimal)} \cup {"+inf", "-inf", "x"}

\* raw.startswith("(") and raw[1:]
StartsWithParen(raw) == \E text \in BoundTexts : raw = "(" \o text
AfterParen(raw) == CHOOSE text \in BoundTexts : raw = "(" \o text

\* parse_score_bound(raw): (value, exclusive), or ValueError raised by
\* float() with the text it could not convert
parse_score_bound(raw) ==
    IF raw = "-inf" THEN [ok |-> TRUE, value |-> <<-1, 0>>, exclusive |-> FALSE]
    ELSE IF raw = "+inf" THEN [ok |-> TRUE, value |-> <<1, 0>>, exclusive |-> FALSE]
    ELSE LET exclusive == StartsWithParen(raw)
             text == IF exclusive THEN AfterParen(raw) ELSE raw
         IN  IF float_or_inf(text) = None
             THEN [ok |-> FALSE,
                   msg |-> "could not convert string to float: '" \o text \o "'"]
             ELSE [ok |-> TRUE, value |-> float_or_inf(text)[1], exclusive |-> exclusive]

_in_range(score, min_val, min_excl, max_val, max_excl) ==
    LET lo_ok == IF min_excl THEN FloatLess(min_val, Finite(score))
                 ELSE ~FloatLess(Finite(score), min_val)
        hi_ok == IF max_excl THEN FloatLess(Finite(score), max_val)
                 ELSE ~FloatLess(max_val, Finite(score))
    IN  lo_ok /\ hi_ok

\* [x for x in seq if keep(x)], for the score filter
RECURSIVE InRange(_, _, _)
InRange(ranked, lo, hi) ==
    IF ranked = << >> THEN << >>
    ELSE (IF _in_range(ranked[1][1], lo.value, lo.exclusive, hi.value, hi.exclusive)
          THEN <<ranked[1]>> ELSE << >>) \o InRange(Tail(ranked), lo, hi)

\* Python's seq[start:] and seq[:stop], a negative index counted from the end
SliceOff(seq, start) ==
    LET from == IF start < 0 THEN Max(0, Len(seq) + start) ELSE Min(start, Len(seq))
    IN  SubSeq(seq, from + 1, Len(seq))
SliceUpTo(seq, stop) ==
    LET to == IF stop < 0 THEN Max(0, Len(seq) + stop) ELSE Min(stop, Len(seq))
    IN  SubSeq(seq, 1, to)

\* ZRANGEBYSCORE and, with reverse, ZREVRANGEBYSCORE: filter the ranked list,
\* reverse, skip offset, take count (all when count = -1)
zset_range_by_score(s, t, key, min_raw, max_raw, with_scores, offset, count, reverse) ==
    LET got == _get_zset(s, t, key)
        lo == parse_score_bound(min_raw)
        hi == parse_score_bound(max_raw)
    IN  IF got.tag = "err" THEN got
        ELSE IF got.tag = "none" THEN [tag |-> "list", items |-> << >>]
        ELSE IF ~lo.ok THEN [tag |-> "err", msg |-> "ERR " \o lo.msg]
        ELSE IF ~hi.ok THEN [tag |-> "err", msg |-> "ERR " \o hi.msg]
        ELSE LET matching == InRange(got.zset.ranked, lo, hi)
                 ordered == IF reverse THEN reversed(matching) ELSE matching
                 skipped == IF offset # 0 THEN SliceOff(ordered, offset) ELSE ordered
                 taken == IF count # -1 THEN SliceUpTo(skipped, count) ELSE skipped
             IN  [tag |-> "list", items |-> PageItems(taken, with_scores)]

\* ------------------------------------------------------------------------
\* commands.py
\* ------------------------------------------------------------------------

\* opts = {args[i].upper(): args[i + 1] for i in range(2, len(args) - 1, 2)}:
\* the positions (1-based) of the option names
OptPositions(args) == {j \in 3..(Len(args) - 1) : j % 2 = 1}

\* name in opts
HasOpt(args, name) == \E j \in OptPositions(args) : upper(args[j]) = name

\* opts[name]: a later occurrence overwrites an earlier one
OptValue(args, name) ==
    LET js == {j \in OptPositions(args) : upper(args[j]) = name}
    IN  args[(CHOOSE j \in js : \A i \in js : i <= j) + 1]

Returns(s, reply) == [store |-> s, reply |-> reply]

PONG == SimpleString("PONG")

handle_ping(s, t, args) ==
    Returns(s, IF Len(args) > 0 THEN SimpleString(args[1]) ELSE PONG)

handle_set(s, t, args) ==
    IF Len(args) < 2 THEN Returns(s, RESPError("ERR wrong number of arguments for SET"))
    ELSE LET key == args[1]
             value == args[2]
             raw == IF HasOpt(args, "EX") THEN Some(float(OptValue(args, "EX")))
                    ELSE IF HasOpt(args, "PX") THEN Some(float(OptValue(args, "PX")))
                    ELSE None
             \* ttl in ticks: float(EX) seconds, or float(PX) / 1000 seconds
             ttl == IF raw = None \/ raw[1] = None THEN None
                    ELSE IF HasOpt(args, "EX") THEN Some(2 * raw[1][1])
                    ELSE Some((2 * raw[1][1]) \div 1000)
         IN  IF raw # None /\ raw[1] = None THEN Returns(s, Raised("ValueError"))
             ELSE Returns(store_set(s, t, key, StrVal(value), ttl), OK)

handle_get(s, t, args) ==
    IF Len(args) = 0 THEN Returns(s, RESPError("ERR wrong number of arguments for GET"))
    ELSE LET entry == store_get(s, t, args[1])
         IN  Returns(s, BulkString(IF entry # None THEN Some(entry[1].value) ELSE None))

handle_del(s, t, args) ==
    LET res == store_delete(s, args)
    IN  Returns(res.store, IntReply(res.count))

handle_exists(s, t, args) == Returns(s, IntReply(store_exists(s, t, args)))

handle_keys(s, t, args) ==
    LET pattern == IF Len(args) > 0 THEN args[1] ELSE "*"
    IN  Returns(s, RESPArraySet(store_keys(s, t, pattern)))

handle_ttl(s, t, args) ==
    IF Len(args) = 0 THEN Returns(s, RESPError("ERR wrong number of arguments for TTL"))
    ELSE Returns(s, IntReply(store_ttl(s, t, args[1])))

\* handle_incr that counts from 0 when the stored text is no integer
handle_incr_text_as_zero(s, t, args) ==
    IF Len(args) = 0 THEN Returns(s, RESPError("ERR wrong number of arguments for INCR"))
    ELSE LET key == args[1]
             entry == store_get(s, t, key)
             parsed == IF entry = None THEN Some(0)
                       ELSE IF entry[1].value.kind = "str" THEN int(entry[1].value.text)
                       ELSE None
             n == IF parsed = None THEN 0 ELSE parsed[1]
         IN  Returns(store_set(s, t, key, StrVal(str(n + 1)), None), IntReply(n + 1))

\* handle_incr that stores the new value with the expiry the key had
handle_incr_keeps_expiry(s, t, args) ==
    IF Len(args) = 0 THEN Returns(s, RESPError("ERR wrong number of arguments for INCR"))
    ELSE LET key == args[1]
             entry == store_get(s, t, key)
             parsed == IF entry = None THEN Some(0)
                       ELSE IF entry[1].value.kind = "str" THEN int(entry[1].value.text)
                       ELSE None
         IN  IF entry # None /\ entry[1].value.kind # "str" THEN Returns(s, Raised("TypeError"))
             ELSE IF parsed = None THEN Returns(s, RESPError("ERR value is not an integer"))
             ELSE Returns(DictPut(s, key, StoreEntry(StrVal(str(parsed[1] + 1)),
                                                     IF entry = None THEN None
                                                     ELSE entry[1].expires_at)),
                           IntReply(parsed[1] + 1))

handle_incr(s, t, args) ==
    IF Len(args) = 0 THEN Returns(s, RESPError("ERR wrong number of arguments for INCR"))
    ELSE LET key == args[1]
             entry == store_get(s, t, key)
             \* int(entry.value if entry else 0)
             parsed == IF entry = None THEN Some(0)
                       ELSE IF entry[1].value.kind = "str" THEN int(entry[1].value.text)
                       ELSE None
         IN  IF entry # None /\ entry[1].value.kind # "str" THEN Returns(s, Raised("TypeError"))
             ELSE IF parsed = None THEN Returns(s, RESPError("ERR value is not an integer"))
             ELSE Returns(store_set(s, t, key, StrVal(str(parsed[1] + 1)), None),
                           IntReply(parsed[1] + 1))

\* handle_expire that looks the key up with store.get instead of store_get
handle_expire_on_stored(s, t, args) ==
    IF Len(args) < 2 THEN Returns(s, RESPError("ERR wrong number of arguments for EXPIRE"))
    ELSE LET key == args[1]
             seconds == int(args[2])
         IN  IF seconds = None THEN Returns(s, Raised("ValueError"))
             ELSE IF key \notin DOMAIN s THEN Returns(s, IntReply(0))
             ELSE Returns(store_set(s, t, key, s[key].value, Some(2 * seconds[1])),
                          IntReply(1))

handle_expire(s, t, args) ==
    IF Len(args) < 2 THEN Returns(s, RESPError("ERR wrong number of arguments for EXPIRE"))
    ELSE LET key == args[1]
             seconds == int(args[2])
             entry == store_get(s, t, key)
         IN  IF seconds = None THEN Returns(s, Raised("ValueError"))
             ELSE IF entry = None THEN Returns(s, IntReply(0))
             ELSE Returns(store_set(s, t, key, entry[1].value, Some(2 * seconds[1])),
                           IntReply(1))

\* ------------------------------------------------------------------------
\* hash_commands.py
\* ------------------------------------------------------------------------

\* a store function's result as a reply: an error string becomes a RESP
\* error, an int stays an int, a text becomes a bulk string
ResultReply(result) ==
    CASE result.tag = "err" -> RESPError(result.msg)
      [] result.tag = "int" -> IntReply(result.n)
      [] result.tag = "text" -> BulkString(Some(StrVal(result.text)))
      [] result.tag = "score" -> BulkString(Some([kind |-> "float", num |-> result.score]))
      [] OTHER -> BulkString(None)

\* _to_array(items): the array of the bulk strings of the items
_to_array(items) == RESPArray([i \in 1..Len(items) |-> BulkString(Some(StrVal(items[i])))])

\* [(args[i], args[i + 1]) for i in range(1, len(args), 2)]
RECURSIVE PairsFrom(_, _)
PairsFrom(args, j) ==
    IF j + 1 > Len(args) THEN << >>
    ELSE <<<<args[j], args[j + 1]>>>> \o PairsFrom(args, j + 2)

handle_hset(s, t, args) ==
    IF Len(args) < 3 \/ Len(args) % 2 = 0
    THEN Returns(s, RESPError("ERR wrong number of arguments for HSET"))
    ELSE LET res == hash_set(s, t, args[1], PairsFrom(args, 2))
         IN  Returns(res.store, ResultReply(res.result))

handle_hmset(s, t, args) ==
    IF Len(args) < 3 \/ Len(args) % 2 = 0
    THEN Returns(s, RESPError("ERR wrong number of arguments for HMSET"))
    ELSE LET res == hash_set(s, t, args[1], PairsFrom(args, 2))
         IN  Returns(res.store,
                     IF res.result.tag = "err" THEN ResultReply(res.result) ELSE OK)

handle_hsetnx(s, t, args) ==
    IF Len(args) # 3 THEN Returns(s, RESPError("ERR wrong number of arguments for HSETNX"))
    ELSE LET res == hash_setnx(s, t, args[1], args[2], args[3])
         IN  Returns(res.store, ResultReply(res.result))

handle_hdel(s, t, args) ==
    IF Len(args) < 2 THEN Returns(s, RESPError("ERR wrong number of arguments for HDEL"))
    ELSE LET res == hash_del(s, t, args[1], Tail(args))
         IN  Returns(res.store, ResultReply(res.result))

handle_hincrby(s, t, args) ==
    IF Len(args) # 3 THEN Returns(s, RESPError("ERR wrong number of arguments for HINCRBY"))
    ELSE IF int(args[3]) = None
    THEN Returns(s, RESPError("ERR value is not an integer or out of range"))
    ELSE LET res == hash_incrby(s, t, args[1], args[2], int(args[3])[1])
         IN  Returns(res.store, ResultReply(res.result))

handle_hincrbyfloat(s, t, args) ==
    IF Len(args) # 3 THEN Returns(s, RESPError("ERR wrong number of arguments for HINCRBYFLOAT"))
    ELSE IF float(args[3]) = None
    THEN Returns(s, RESPError("ERR value is not a valid float"))
    ELSE LET res == hash_incrbyfloat(s, t, args[1], args[2], float(args[3])[1])
         IN  Returns(res.store, ResultReply(res.result))

\* a result that is a str starting with "WRONGTYPE" is returned as an error,
\* a field's value too
handle_hget(s, t, args) ==
    IF Len(args) # 2 THEN Returns(s, RESPError("ERR wrong number of arguments for HGET"))
    ELSE LET result == hash_get(s, t, args[1], args[2])
         IN  IF result.tag = "text" /\ startswith_WRONGTYPE(result.text)
             THEN Returns(s, RESPError(result.text))
             ELSE Returns(s, ResultReply(result))

handle_hlen(s, t, args) ==
    IF Len(args) # 1 THEN Returns(s, RESPError("ERR wrong number of arguments for HLEN"))
    ELSE Returns(s, ResultReply(hash_len(s, t, args[1])))

\* the options of HSCAN from position j (1-based) on: MATCH pattern and
\* COUNT count, anything else is skipped
RECURSIVE ScanOptions(_, _, _, _)
ScanOptions(args, j, match_pattern, count) ==
    IF j > Len(args) THEN [err |-> None, match_pattern |-> match_pattern, count |-> count]
    ELSE IF upper(args[j]) = "MATCH" /\ j + 1 <= Len(args)
    THEN ScanOptions(args, j + 2, args[j + 1], count)
    ELSE IF upper(args[j]) = "COUNT" /\ j + 1 <= Len(args)
    THEN IF int(args[j + 1]) = None
         THEN [err |-> Some("ERR COUNT is not an integer"),
               match_pattern |-> match_pattern, count |-> count]
         ELSE ScanOptions(args, j + 2, match_pattern, int(args[j + 1])[1])
    ELSE ScanOptions(args, j + 1, match_pattern, count)

\* HSCAN key cursor [MATCH pattern] [COUNT count]
handle_hscan(s, t, args) ==
    IF Len(args) < 2 THEN Returns(s, RESPError("ERR wrong number of arguments for HSCAN"))
    ELSE IF int(args[2]) = None THEN Returns(s, RESPError("ERR cursor is not an integer"))
    ELSE LET opts == ScanOptions(args, 3, "*", 10)
         IN  IF opts.err # None THEN Returns(s, RESPError(opts.err[1]))
             ELSE LET result == hash_scan(s, t, args[1], int(args[2])[1],
                                          opts.match_pattern, opts.count)
                  IN  IF result.tag = "err" THEN Returns(s, RESPError(result.msg))
                      ELSE Returns(s, RESPArray(<<BulkString(Some(StrVal(str(result.next_cursor)))),
                                                  _to_array(result.flat)>>))

\* ------------------------------------------------------------------------
\* zset_commands.py
\* ------------------------------------------------------------------------

ZaddFlags == {"NX", "XX", "GT", "LT", "CH"}

\* while i < len(args) and args[i].upper() in flags: i += 1
\* (j is the 1-based position; the result is the position of the tail)
RECURSIVE FlagsEnd(_, _)
FlagsEnd(args, j) ==
    IF j <= Len(args) /\ upper(args[j]) \in ZaddFlags
    THEN FlagsEnd(args, j + 1)
    ELSE j

\* the flag was seen among the consumed options
FlagSet(args, flag) == \E j \in 2..(FlagsEnd(args, 2) - 1) : upper(args[j]) = flag

\* [(tail[j + 1], float(tail[j])) for j in range(0, len(tail), 2)]
RECURSIVE ScorePairs(_)
ScorePairs(tail) ==
    IF Len(tail) < 2 THEN << >>
    ELSE <<<<tail[2], float(tail[1])>>>> \o ScorePairs(SubSeq(tail, 3, Len(tail)))

handle_zadd(s, t, args) ==
    IF Len(args) < 3 THEN Returns(s, RESPError("ERR wrong number of arguments for ZADD"))
    ELSE LET nx == FlagSet(args, "NX")
             xx == FlagSet(args, "XX")
             gt == FlagSet(args, "GT")
             lt == FlagSet(args, "LT")
             ch == FlagSet(args, "CH")
             tail == SubSeq(args, FlagsEnd(args, 2), Len(args))
             raw == ScorePairs(tail)
             pairs == [i \in 1..Len(raw) |-> <<raw[i][1], raw[i][2][1]>>]
         IN  IF nx /\ xx
             THEN Returns(s, RESPError("ERR XX and NX options at the same time are not compatible"))
             ELSE IF gt /\ lt
             THEN Returns(s, RESPError("ERR GT and LT options at the same time are not compatible"))
             ELSE IF nx /\ (gt \/ lt)
             THEN Returns(s, RESPError("ERR GT, LT, and NX options at the same time are not compatible"))
             ELSE IF Len(tail) < 2 \/ Len(tail) % 2 # 0
             THEN Returns(s, RESPError("ERR syntax error"))
             ELSE IF \E i \in 1..Len(raw) : raw[i][2] = None
             THEN Returns(s, RESPError("ERR value is not a valid float"))
             ELSE LET res == zset_add(s, t, args[1], pairs, nx, xx, gt, lt, ch)
                  IN  Returns(res.store, ResultReply(res.result))

handle_zrem(s, t, args) ==
    IF Len(args) < 2 THEN Returns(s, RESPError("ERR wrong number of arguments for ZREM"))
    ELSE LET res == zset_rem(s, t, args[1], Tail(args))
         IN  Returns(res.store, ResultReply(res.result))

handle_zincrby(s, t, args) ==
    IF Len(args) # 3 THEN Returns(s, RESPError("ERR wrong number of arguments for ZINCRBY"))
    ELSE IF float(args[2]) = None
    THEN Returns(s, RESPError("ERR value is not a valid float"))
    ELSE LET res == zset_incrby(s, t, args[1], args[3], float(args[2])[1])
         IN  Returns(res.store, ResultReply(res.result))

\* ZSCORE key member: the score as a text, or nil
handle_zscore(s, t, args) ==
    IF Len(args) # 2 THEN Returns(s, RESPError("ERR wrong number of arguments for ZSCORE"))
    ELSE Returns(s, ResultReply(zset_score(s, t, args[1], args[2])))

handle_zrank(s, t, args) ==
    IF Len(args) # 2 THEN Returns(s, RESPError("ERR wrong number of arguments for ZRANK"))
    ELSE Returns(s, ResultReply(zset_rank(s, t, args[1], args[2], FALSE)))

handle_zrevrank(s, t, args) ==
    IF Len(args) # 2 THEN Returns(s, RESPError("ERR wrong number of arguments for ZREVRANK"))
    ELSE Returns(s, ResultReply(zset_rank(s, t, args[1], args[2], TRUE)))

handle_zcard(s, t, args) ==
    IF Len(args) # 1 THEN Returns(s, RESPError("ERR wrong number of arguments for ZCARD"))
    ELSE Returns(s, ResultReply(zset_card(s, t, args[1])))

\* a store function's list as an array reply, its error string as an error
ListReply(result) ==
    IF result.tag = "err" THEN RESPError(result.msg) ELSE _to_array(result.items)

\* ZRANGE key start stop [WITHSCORES] and, with reverse, ZREVRANGE
RangeHandler(s, t, args, name, reverse) ==
    IF Len(args) < 3 THEN Returns(s, RESPError("ERR wrong number of arguments for " \o name))
    ELSE IF int(args[2]) = None \/ int(args[3]) = None
    THEN Returns(s, RESPError("ERR value is not an integer or out of range"))
    ELSE LET with_scores == Len(args) > 3 /\ upper(args[4]) = "WITHSCORES"
         IN  Returns(s, ListReply(zset_range(s, t, args[1], int(args[2])[1], int(args[3])[1],
                                             with_scores, reverse)))

handle_zrange(s, t, args) == RangeHandler(s, t, args, "ZRANGE", FALSE)

handle_zrevrange(s, t, args) == RangeHandler(s, t, args, "ZREVRANGE", TRUE)

\* _parse_withscores_limit(args): (with_scores, offset, count, error_msg);
\* j is the 1-based position in args
RECURSIVE ParseTailFrom(_, _, _, _, _)
ParseTailFrom(args, j, with_scores, offset, count) ==
    IF j > Len(args)
    THEN [with_scores |-> with_scores, offset |-> offset, count |-> count, err |-> None]
    ELSE IF upper(args[j]) = "WITHSCORES" THEN ParseTailFrom(args, j + 1, TRUE, offset, count)
    ELSE IF upper(args[j]) = "LIMIT"
    THEN IF j + 1 >= Len(args)
         THEN [with_scores |-> FALSE, offset |-> 0, count |-> -1,
               err |-> Some("ERR syntax error")]
         ELSE IF int(args[j + 1]) = None \/ int(args[j + 2]) = None
         THEN [with_scores |-> FALSE, offset |-> 0, count |-> -1,
               err |-> Some("ERR LIMIT values must be integers")]
         ELSE ParseTailFrom(args, j + 3, with_scores, int(args[j + 1])[1], int(args[j + 2])[1])
    ELSE [with_scores |-> FALSE, offset |-> 0, count |-> -1,
          err |-> Some("ERR syntax error near '" \o args[j] \o "'")]

_parse_withscores_limit(args) == ParseTailFrom(args, 1, FALSE, 0, -1)

\* ZRANGEBYSCORE key min max [WITHSCORES] [LIMIT offset count]
handle_zrangebyscore(s, t, args) ==
    IF Len(args) < 3
    THEN Returns(s, RESPError("ERR wrong number of arguments for ZRANGEBYSCORE"))
    ELSE LET opts == _parse_withscores_limit(SubSeq(args, 4, Len(args)))
         IN  IF opts.err # None THEN Returns(s, RESPError(opts.err[1]))
             ELSE Returns(s, ListReply(zset_range_by_score(s, t, args[1], args[2], args[3],
                                           opts.with_scores, opts.offset, opts.count, FALSE)))

\* ZREVRANGEBYSCORE key max min [WITHSCORES] [LIMIT offset count]: max comes
\* before min
handle_zrevrangebyscore(s, t, args) ==
    IF Len(args) < 3
    THEN Returns(s, RESPError("ERR wrong number of arguments for ZREVRANGEBYSCORE"))
    ELSE LET opts == _parse_withscores_limit(SubSeq(args, 4, Len(args)))
         IN  IF opts.err # None THEN Returns(s, RESPError(opts.err[1]))
             ELSE Returns(s, ListReply(zset_range_by_score(s, t, args[1], args[3], args[2],
                                           opts.with_scores, opts.offset, opts.count, TRUE)))

\* dispatch(raw_args): raw_args[1] is the command name
dispatch(s, t, raw_args) ==
    IF raw_args = << >> THEN Returns(s, RESPError("ERR empty command"))
    ELSE LET cmd == upper(raw_args[1])
             args == Tail(raw_args)
         IN  CASE cmd = "PING" -> handle_ping(s, t, args)
               [] cmd = "SET" -> handle_set(s, t, args)
               [] cmd = "GET" -> handle_get(s, t, args)
               [] cmd = "DEL" -> handle_del(s, t, args)
               [] cmd = "EXISTS" -> handle_exists(s, t, args)
               [] cmd = "KEYS" -> handle_keys(s, t, args)
               [] cmd = "TTL" -> handle_ttl(s, t, args)
               [] cmd = "INCR" -> handle_incr(s, t, args)
               [] cmd = "EXPIRE" -> handle_expire(s, t, args)
               [] cmd = "HSET" -> handle_hset(s, t, args)
               [] cmd = "HMSET" -> handle_hmset(s, t, args)
               [] cmd = "HSETNX" -> handle_hsetnx(s, t, args)
               [] cmd = "HGET" -> handle_hget(s, t, args)
               [] cmd = "HDEL" -> handle_hdel(s, t, args)
               [] cmd = "HLEN" -> handle_hlen(s, t, args)
               [] cmd = "HSCAN" -> handle_hscan(s, t, args)
               [] cmd = "HINCRBY" -> handle_hincrby(s, t, args)
               [] cmd = "HINCRBYFLOAT" -> handle_hincrbyfloat(s, t, args)
               [] cmd = "ZADD" -> handle_zadd(s, t, args)
               [] cmd = "ZREM" -> handle_zrem(s, t, args)
               [] cmd = "ZINCRBY" -> handle_zincrby(s, t, args)
               [] cmd = "ZSCORE" -> handle_zscore(s, t, args)
               [] cmd = "ZRANK" -> handle_zrank(s, t, args)
               [] cmd = "ZREVRANK" -> handle_zrevrank(s, t, args)
               [] cmd = "ZCARD" -> handle_zcard(s, t, args)
               [] cmd = "ZRANGE" -> handle_zrange(s, t, args)
               [] cmd = "ZREVRANGE" -> handle_zrevrange(s, t, args)
               [] cmd = "ZRANGEBYSCORE" -> handle_zrangebyscore(s, t, args)
               [] cmd = "ZREVRANGEBYSCORE" -> handle_zrevrangebyscore(s, t, args)
               [] OTHER -> Returns(s, RESPError("ERR unknown command"))

\* ------------------------------------------------------------------------
\* protocol.py
\* A str is the sequence of its characters and a bytes object the sequence
\* of its bytes. An ASCII character is encoded as one byte, written as the
\* character itself; the character e-acute is encoded as the two bytes xC3
\* xA9.
\* ------------------------------------------------------------------------

CR == "\r"
LF == "\n"
EAcute == "e-acute"

DigitChars == <<"0", "1", "2", "3", "4", "5", "6", "7", "8", "9">>
IsDigit(b) == \E i \in 1..10 : DigitChars[i] = b
DigitValue(b) == (CHOOSE i \in 1..10 : DigitChars[i] = b) - 1

RECURSIVE Flatten(_)
Flatten(seqs) == IF seqs = << >> THEN << >> ELSE Head(seqs) \o Flatten(Tail(seqs))

\* str.encode()
encode(text) ==
    Flatten([i \in 1..Len(text) |->
                IF text[i] = EAcute THEN <<"xC3", "xA9">> ELSE <<text[i]>>])

\* bytes.decode(): None stands for UnicodeDecodeError, a ValueError
RECURSIVE decode(_)
decode(data) ==
    IF data = << >> THEN Some(<< >>)
    ELSE IF Head(data) = "xA9" THEN None
    ELSE IF Head(data) = "xC3"
         THEN IF Len(data) >= 2 /\ data[2] = "xA9"
              THEN LET more == decode(SubSeq(data, 3, Len(data)))
                   IN  IF more = None THEN None ELSE Some(<<EAcute>> \o more[1])
              ELSE None
    ELSE LET more == decode(Tail(data))
         IN  IF more = None THEN None ELSE Some(<<Head(data)>> \o more[1])

\* f"{n}" for an int
RECURSIVE format_int(_)
format_int(n) ==
    IF n < 0 THEN <<"-">> \o format_int(-n)
    ELSE IF n < 10 THEN <<DigitChars[n + 1]>>
    ELSE format_int(n \div 10) \o <<DigitChars[(n % 10) + 1]>>

RECURSIVE DigitsValue(_)
DigitsValue(digits) ==
    IF digits = << >> THEN 0
    ELSE 10 * DigitsValue(SubSeq(digits, 1, Len(digits) - 1)) + DigitValue(digits[Len(digits)])

\* int(line) for a bytes line: an optional sign and decimal digits; None
\* stands for ValueError
int_of_bytes(line) ==
    LET signed == line # << >> /\ Head(line) \in {"+", "-"}
        digits == IF signed THEN Tail(line) ELSE line
    IN  IF digits = << >> \/ \E i \in 1..Len(digits) : ~IsDigit(digits[i]) THEN None
        ELSE IF signed /\ Head(line) = "-" THEN Some(-DigitsValue(digits))
        ELSE Some(DigitsValue(digits))

\* data[:stop] and data[start:], with Python's treatment of negative indices
SliceTo(data, stop) ==
    SubSeq(data, 1, IF stop < 0 THEN Max(0, Len(data) + stop) ELSE Min(stop, Len(data)))
SliceFrom(data, start) ==
    SubSeq(data, (IF start < 0 THEN Max(0, Len(data) + start) ELSE Min(start, Len(data))) + 1,
           Len(data))

\* data.find(b"\r\n"), counted from 0
find_crlf(data) ==
    LET hits == {i \in 1..(Len(data) - 1) : data[i] = CR /\ data[i + 1] = LF}
    IN  IF hits = {} THEN -1 ELSE (CHOOSE i \in hits : \A j \in hits : i <= j) - 1

\* the outcomes of parse: (value, rest), or ValueError raised
Parsed(v, rest) == [ok |-> TRUE, value |-> v, rest |-> rest]
ValueError(msg) == [ok |-> FALSE, value |-> msg, rest |-> << >>]

_read_line(data) ==
    LET idx == find_crlf(data)
    IN  IF idx = -1 THEN ValueError("Incomplete: no CRLF found")
        ELSE Parsed(SliceTo(data, idx), SliceFrom(data, idx + 2))

_parse_simple_string(data) ==
    LET line == _read_line(data)
    IN  IF ~line.ok THEN line
        ELSE IF decode(line.value) = None THEN ValueError("UnicodeDecodeError")
        ELSE Parsed(SimpleString(decode(line.value)[1]), line.rest)

_parse_error(data) ==
    LET line == _read_line(data)
    IN  IF ~line.ok THEN line
        ELSE IF decode(line.value) = None THEN ValueError("UnicodeDecodeError")
        ELSE Parsed(RESPError(decode(line.value)[1]), line.rest)

_parse_integer(data) ==
    LET line == _read_line(data)
    IN  IF ~line.ok THEN line
        ELSE IF int_of_bytes(line.value) = None THEN ValueError("invalid literal for int()")
        ELSE Parsed(IntReply(int_of_bytes(line.value)[1]), line.rest)

_parse_bulk_string(data) ==
    LET length_line == _read_line(data)
    IN  IF ~length_line.ok THEN length_line
        ELSE IF int_of_bytes(length_line.value) = None
             THEN ValueError("invalid literal for int()")
        ELSE LET length == int_of_bytes(length_line.value)[1]
                 rest == length_line.rest
             IN  IF length = -1 THEN Parsed(BulkString(None), rest)
                 ELSE IF Len(rest) < length + 2 THEN ValueError("Incomplete bulk string")
                 ELSE IF decode(SliceTo(rest, length)) = None
                      THEN ValueError("UnicodeDecodeError")
                 ELSE Parsed(BulkString(Some(decode(SliceTo(rest, length))[1])),
                             SliceFrom(rest, length + 2))

RECURSIVE parse(_)
\* the loop of _parse_array: count items still to parse from rest
RECURSIVE ParseItems(_, _, _)
ParseItems(count, items, rest) ==
    IF count <= 0 THEN Parsed(RESPArray(items), rest)
    ELSE LET item == parse(rest)
         IN  IF ~item.ok THEN item
             ELSE ParseItems(count - 1, Append(items, item.value), item.rest)

_parse_array(data) ==
    LET count_line == _read_line(data)
    IN  IF ~count_line.ok THEN count_line
        ELSE IF int_of_bytes(count_line.value) = None
             THEN ValueError("invalid literal for int()")
        ELSE LET count == int_of_bytes(count_line.value)[1]
             IN  IF count = -1 THEN Parsed(RESPArray(<< >>), count_line.rest)
                 ELSE ParseItems(count, << >>, count_line.rest)

parse(data) ==
    IF data = << >> THEN ValueError("Empty buffer")
    ELSE LET prefix == Head(data)
             rest == Tail(data)
         IN  CASE prefix = "+" -> _parse_simple_string(rest)
               [] prefix = "-" -> _parse_error(rest)
               [] prefix = ":" -> _parse_integer(rest)
               [] prefix = "$" -> _parse_bulk_string(rest)
               [] prefix = "*" -> _parse_array(rest)
               [] OTHER -> ValueError("Unknown RESP prefix")

RECURSIVE serialize(_)
serialize(v) ==
    CASE v.t = "simple" -> <<"+">> \o encode(v.v) \o <<CR, LF>>
      [] v.t = "err" -> <<"-">> \o encode(v.v) \o <<CR, LF>>
      [] v.t = "int" -> <<":">> \o encode(format_int(v.v)) \o <<CR, LF>>
      [] v.t = "bulk" /\ v.v = None -> <<"$", "-", "1", CR, LF>>
      [] v.t = "bulk" /\ v.v # None ->
            <<"$">> \o encode(format_int(Len(v.v[1]))) \o <<CR, LF>>
                \o encode(v.v[1]) \o <<CR, LF>>
      [] v.t = "array" ->
            <<"*">> \o encode(format_int(Len(v.v))) \o <<CR, LF>>
                \o Flatten([i \in 1..Len(v.v) |-> serialize(v.v[i])])

\* ------------------------------------------------------------------------
\* Inputs: the argument vectors the clients send
\* ------------------------------------------------------------------------

\* the commands of this specification address one key; the handlers treat
\* every key alike
K1 == "k1"
Keys == {K1}

SetInputs ==
    {<<K1, "1">>, <<K1, "abc">>, <<K1, "1", "EX", "1">>, <<K1, "abc", "ex", "-1">>,
     <<K1, "abc", "PX", "1000">>}

KeyLists == {<<K1>>, <<K1, K1>>}

ExpireInputs == {<<K1, "1">>, <<K1, "-1">>}

HsetInputs ==
    {<<K1, "f1", "1">>, <<K1, "f2", "abc">>,
     <<K1, "f1", "1", "f1", "abc">>, <<K1, "f1", "1", "f2", "abc">>}

HdelInputs == {<<K1, "f1">>, <<K1, "f2">>, <<K1, "f1", "f1">>, <<K1, "f1", "f2">>}

FlagLists ==
    {<<"NX">>, <<"XX">>, <<"GT">>, <<"LT">>, <<"CH">>, <<"XX", "CH">>, <<"GT", "CH">>}

ZaddInputs ==
    {<<K1, sc, m>> : sc \in {"1", "2"}, m \in {"a", "b"}}
    \cup {<<K1, "1", "a", "1", "a">>, <<K1, "1", "a", "2", "b">>}
    \cup {<<K1>> \o fl \o <<sc, "a">> : fl \in FlagLists, sc \in {"1", "2"}}

ZremInputs == {<<K1, "a">>, <<K1, "b">>, <<K1, "a", "a">>, <<K1, "a", "b">>}

ZincrbyInputs == {<<K1, "1", "a">>, <<K1, "0", "b">>}

\* ------------------------------------------------------------------------
\* Guards that keep the model finite
\* ------------------------------------------------------------------------

\* the text is no number beyond MaxNum
TextBounded(text) == int(text) # None => int(text)[1] <= MaxNum

\* the value has no ranked list longer than MaxRanked and no number beyond
\* MaxNum
ValueBounded(value) ==
    CASE value.kind = "str" -> TextBounded(value.text)
      [] value.kind = "hash" ->
            \A i \in 1..Len(value.inner) : TextBounded(value.inner[i][2])
      [] value.kind = "zset" ->
            /\ Len(value.ranked) <= MaxRanked
            /\ \A m \in DOMAIN value.scores : value.scores[m] <= MaxNum

StoreBounded(s) == \A k \in DOMAIN s : ValueBounded(s[k].value)

\* ------------------------------------------------------------------------
\* Actions: one per command handler, plus the clock
\* ------------------------------------------------------------------------

NoReply == [t |-> "none", v |-> 0]

\* nothing has been given to the codec
NotParsed == ValueError("nothing parsed")
\* parse has returned or raised
HasParsed == received.ok \/ received.value # "nothing parsed"
CodecIdle ==
    /\ resp = NoReply
    /\ wire = << >>
    /\ received = NotParsed

\* no connection is open and state._lock is free
ServerIdle ==
    /\ lock = None
    /\ conn = << >>

\* the one object is the empty keyspace of make_store(), and no handler
\* holds a reference
ObjectsIdle ==
    /\ heap = <<make_store>>
    /\ root = 1
    /\ held = None

NoCommand == [cmd |-> "", key |-> "", reply |-> NoReply]

Init ==
    /\ store = make_store
    /\ now = 0
    /\ last = NoCommand
    /\ CodecIdle
    /\ ServerIdle
    /\ ObjectsIdle

\* a handler runs to completion and leaves the outcome out; a command that
\* would take the keyspace beyond the bounds is not issued, and commands that
\* carry a TTL are issued in the first tick
Exec(cmd, args, out) ==
    /\ StoreBounded(out.store)
    /\ store' = out.store
    /\ last' = [cmd |-> cmd, key |-> args[1], reply |-> out.reply]
    /\ now' = now
    /\ UNCHANGED <<codecVars, serverVars, objectVars>>

SET ==
    \E args \in SetInputs :
        /\ Len(args) > 2 => now = 0
        /\ \E out \in {handle_set(store, now, args)} : Exec("SET", args, out)

GET == \E k \in Keys : \E out \in {handle_get(store, now, <<k>>)} : Exec("GET", <<k>>, out)

DEL == \E args \in KeyLists : \E out \in {handle_del(store, now, args)} : Exec("DEL", args, out)

EXISTS ==
    \E args \in KeyLists : \E out \in {handle_exists(store, now, args)} : Exec("EXISTS", args, out)

KEYS ==
    \E args \in {<<"*">>, <<"k1*">>} :
        \E out \in {handle_keys(store, now, args)} : Exec("KEYS", args, out)

TTL == \E k \in Keys : \E out \in {handle_ttl(store, now, <<k>>)} : Exec("TTL", <<k>>, out)

INCR == \E out \in {handle_incr(store, now, <<K1>>)} : Exec("INCR", <<K1>>, out)

EXPIRE ==
    \E args \in ExpireInputs :
        /\ now = 0
        /\ \E out \in {handle_expire(store, now, args)} : Exec("EXPIRE", args, out)

HSET == \E args \in HsetInputs : \E out \in {handle_hset(store, now, args)} : Exec("HSET", args, out)

HMSET ==
    \E args \in {<<K1, "f1", "1">>} :
        \E out \in {handle_hmset(store, now, args)} : Exec("HMSET", args, out)

HSETNX ==
    \E args \in {<<K1, "f2", "abc">>} :
        \E out \in {handle_hsetnx(store, now, args)} : Exec("HSETNX", args, out)

HDEL == \E args \in HdelInputs : \E out \in {handle_hdel(store, now, args)} : Exec("HDEL", args, out)

HINCRBY ==
    \E args \in {<<K1, "f1", "1">>} :
        \E out \in {handle_hincrby(store, now, args)} : Exec("HINCRBY", args, out)

HINCRBYFLOAT ==
    \E args \in {<<K1, "f1", "1">>} :
        \E out \in {handle_hincrbyfloat(store, now, args)} : Exec("HINCRBYFLOAT", args, out)

ZADD == \E args \in ZaddInputs : \E out \in {handle_zadd(store, now, args)} : Exec("ZADD", args, out)

ZREM == \E args \in ZremInputs : \E out \in {handle_zrem(store, now, args)} : Exec("ZREM", args, out)

ZINCRBY ==
    \E args \in ZincrbyInputs :
        \E out \in {handle_zincrby(store, now, args)} : Exec("ZINCRBY", args, out)

\* HSET of a value that begins with the word WRONGTYPE
HSETText ==
    \E args \in {<<K1, "f1", WrongTypeLike>>} :
        \E out \in {handle_hset(store, now, args)} : Exec("HSET", args, out)

HGET ==
    \E args \in {<<K1, "f1">>} :
        \E out \in {handle_hget(store, now, args)} : Exec("HGET", args, out)

HLEN == \E out \in {handle_hlen(store, now, <<K1>>)} : Exec("HLEN", <<K1>>, out)

HSCAN ==
    \E args \in {<<K1, "0", "COUNT", "1">>, <<K1, "1", "MATCH", "f1*">>} :
        \E out \in {handle_hscan(store, now, args)} : Exec("HSCAN", args, out)

ZSCORE ==
    \E args \in {<<K1, "a">>} :
        \E out \in {handle_zscore(store, now, args)} : Exec("ZSCORE", args, out)

ZRANK ==
    \E args \in {<<K1, "a">>, <<K1, "b">>} :
        \E out \in {handle_zrank(store, now, args)} : Exec("ZRANK", args, out)

ZREVRANK ==
    \E args \in {<<K1, "a">>, <<K1, "b">>} :
        \E out \in {handle_zrevrank(store, now, args)} : Exec("ZREVRANK", args, out)

ZCARD == \E out \in {handle_zcard(store, now, <<K1>>)} : Exec("ZCARD", <<K1>>, out)

ZRANGE ==
    \E args \in {<<K1, "0", "-1">>, <<K1, "-1", "1", "WITHSCORES">>} :
        \E out \in {handle_zrange(store, now, args)} : Exec("ZRANGE", args, out)

ZREVRANGE ==
    \E args \in {<<K1, "0", "-1">>, <<K1, "1", "5">>} :
        \E out \in {handle_zrevrange(store, now, args)} : Exec("ZREVRANGE", args, out)

ZRANGEBYSCORE ==
    \E args \in {<<K1, "1", "2", "WITHSCORES">>, <<K1, "(1", "+inf", "LIMIT", "0", "1">>} :
        \E out \in {handle_zrangebyscore(store, now, args)} : Exec("ZRANGEBYSCORE", args, out)

ZREVRANGEBYSCORE ==
    \E args \in {<<K1, "2", "1">>, <<K1, "+inf", "-inf", "LIMIT", "1", "-1">>} :
        \E out \in {handle_zrevrangebyscore(store, now, args)} :
            Exec("ZREVRANGEBYSCORE", args, out)

\* time passes between two commands
Tick ==
    /\ now < MaxNow
    /\ now' = now + 1
    /\ last' = [cmd |-> "TICK", key |-> "", reply |-> NoReply]
    /\ UNCHANGED <<store, codecVars, serverVars, objectVars>>

Next ==
    \/ SET \/ GET \/ DEL \/ EXISTS \/ KEYS \/ TTL \/ INCR \/ EXPIRE
    \/ HSET \/ HMSET \/ HSETNX \/ HDEL \/ HINCRBY \/ HINCRBYFLOAT
    \/ ZADD \/ ZREM \/ ZINCRBY
    \/ Tick

Spec == Init /\ [][Next]_vars

\* ------------------------------------------------------------------------
\* The commands on the values of a key, with the clock standing still: the
\* writers of the three kinds of value and the readers of the hash and
\* sorted-set families
\* ------------------------------------------------------------------------

DataNext ==
    \/ SET \/ DEL \/ INCR
    \/ HSET \/ HSETText \/ HMSET \/ HSETNX \/ HDEL \/ HINCRBY \/ HINCRBYFLOAT
    \/ HGET \/ HLEN \/ HSCAN
    \/ ZADD \/ ZREM \/ ZINCRBY \/ ZSCORE \/ ZRANK \/ ZREVRANK \/ ZCARD \/ ZRANGE \/ ZREVRANGE
    \/ ZRANGEBYSCORE \/ ZREVRANGEBYSCORE

DataSpec == Init /\ [][DataNext]_vars

\* ------------------------------------------------------------------------
\* The codec on its own: a RESP value is serialized, and the bytes are
\* parsed back
\* ------------------------------------------------------------------------

\* an array has at most MaxArrayLen items
MaxArrayLen == 2

PlainTexts == {<< >>, <<"O", "K">>, <<EAcute>>}
BulkTexts == PlainTexts \cup {<<"a", CR, LF>>}
RespInts == {-12, -1, 0, 7, 10}
RespScalars ==
    {SimpleString(x) : x \in PlainTexts} \cup {RESPError(x) : x \in PlainTexts}
    \cup {IntReply(n) : n \in RespInts}
    \cup {BulkString(None)} \cup {BulkString(Some(x)) : x \in BulkTexts}
InnerArrays ==
    {RESPArray(<< >>), RESPArray(<<BulkString(Some(<<"O", "K">>))>>),
     RESPArray(<<IntReply(7), RESPArray(<< >>)>>)}
RespValues ==
    RespScalars
    \cup UNION {{RESPArray(items) : items \in [1..n -> RespScalars \cup InnerArrays]} :
                    n \in 0..MaxArrayLen}

CodecInit ==
    /\ resp \in RespValues
    /\ wire = << >>
    /\ received = NotParsed
    /\ store = make_store
    /\ now = 0
    /\ last = NoCommand
    /\ ServerIdle
    /\ ObjectsIdle

Serialize ==
    /\ wire = << >>
    /\ wire' = serialize(resp)
    /\ UNCHANGED <<resp, received, store, now, last, serverVars, objectVars>>

Parse ==
    /\ wire # << >>
    /\ ~HasParsed
    /\ received' = parse(wire)
    /\ UNCHANGED <<resp, wire, store, now, last, serverVars, objectVars>>

CodecNext == Serialize \/ Parse

CodecSpec == CodecInit /\ [][CodecNext]_vars

\* ------------------------------------------------------------------------
\* server.py: handle_client, one task per connection, and the write lock
\* of state.py that the handlers take with `async with _lock`.
\* The tasks interleave between any two steps of a task; the suspension
\* points of the event loop (reader.read, the lock, writer.drain) are among
\* them.
\* ------------------------------------------------------------------------

Conns == {"c1", "c2"}

\* the texts the clients send, as the model's strings and as characters
Spelling ==
    <<<<"PING", <<"P", "I", "N", "G">>>>, <<"SET", <<"S", "E", "T">>>>,
      <<"GET", <<"G", "E", "T">>>>, <<"INCR", <<"I", "N", "C", "R">>>>,
      <<"k1", <<"k", "1">>>>, <<"k2", <<"k", "2">>>>, <<"1", <<"1">>>>,
      <<"EX", <<"E", "X">>>>, <<"abc", <<"a", "b", "c">>>>,
      <<"EXPIRE", <<"E", "X", "P", "I", "R", "E">>>>, <<"HSET", <<"H", "S", "E", "T">>>>,
      <<"ZINCRBY", <<"Z", "I", "N", "C", "R", "B", "Y">>>>, <<"f1", <<"f", "1">>>>,
      <<"a", <<"a">>>>>>
Spell(text) == Spelling[CHOOSE i \in 1..Len(Spelling) : Spelling[i][1] = text][2]
Atom(chars) ==
    IF \E i \in 1..Len(Spelling) : Spelling[i][2] = chars
    THEN Spelling[CHOOSE i \in 1..Len(Spelling) : Spelling[i][2] = chars][1]
    ELSE "?"

\* a request as a client writes it: an Array of BulkStrings
Request(words) == RESPArray([i \in 1..Len(words) |-> BulkString(Some(Spell(words[i])))])

\* [item.value for item in value.items
\*      if isinstance(item, BulkString) and item.value is not None]
Argv(v) ==
    LET bulks == SelectSeq(v.v, LAMBDA item : item.t = "bulk" /\ item.v # None)
    IN  [i \in 1..Len(bulks) |-> Atom(bulks[i].v[1])]

\* handle_zadd reaches its locked section: none of its checks returned
ZaddAccepted(args) ==
    /\ Len(args) >= 3
    /\ LET nx == FlagSet(args, "NX")
           xx == FlagSet(args, "XX")
           gt == FlagSet(args, "GT")
           lt == FlagSet(args, "LT")
           tail == SubSeq(args, FlagsEnd(args, 2), Len(args))
           raw == ScorePairs(tail)
       IN  /\ ~(nx /\ xx)
           /\ ~(gt /\ lt)
           /\ ~(nx /\ (gt \/ lt))
           /\ ~(Len(tail) < 2 \/ Len(tail) % 2 # 0)
           /\ \A i \in 1..Len(raw) : raw[i][2] # None

\* the handler of raw_args reaches an `async with _lock`: it is one of the
\* handlers that have one, and the checks before it neither returned nor
\* raised
TakesLock(raw_args) ==
    /\ raw_args # << >>
    /\ LET cmd == upper(raw_args[1])
           args == Tail(raw_args)
       IN  CASE cmd = "SET" ->
                    /\ Len(args) >= 2
                    /\ HasOpt(args, "EX") => float(OptValue(args, "EX")) # None
                    /\ ~HasOpt(args, "EX") /\ HasOpt(args, "PX")
                            => float(OptValue(args, "PX")) # None
             [] cmd = "DEL" -> TRUE
             [] cmd = "INCR" -> Len(args) > 0
             [] cmd = "EXPIRE" -> Len(args) >= 2 /\ int(args[2]) # None
             [] cmd \in {"HSET", "HMSET"} -> ~(Len(args) < 3 \/ Len(args) % 2 = 0)
             [] cmd = "HSETNX" -> Len(args) = 3
             [] cmd = "HDEL" -> Len(args) >= 2
             [] cmd = "HINCRBY" -> Len(args) = 3 /\ int(args[3]) # None
             [] cmd = "HINCRBYFLOAT" -> Len(args) = 3 /\ float(args[3]) # None
             [] cmd = "ZADD" -> ZaddAccepted(args)
             [] cmd = "ZREM" -> Len(args) >= 2
             [] cmd = "ZINCRBY" -> Len(args) = 3 /\ float(args[2]) # None
             [] OTHER -> FALSE

\* a reply to a non-array frame with another text
ExpectedArrayOtherText == RESPError("ERR unknown command")

ExpectedArray == RESPError("ERR expected array")

\* the buffer replaced by the chunk instead of extended by it
BufferedChunkOnly(buf, chunk) == chunk

\* buf += chunk
Buffered(buf, chunk) == buf \o chunk

\* writer.write(serialize(result)): the replies written, in order
Written(out, reply) == Append(out, reply)

\* a lock that never makes a task wait
LockFreeAlways == TRUE

\* state._lock is not held
LockFree == lock = None

\* what a client sends: junk bytes, then frames, then the bytes of a frame
\* it never completes
Script(head, frames, tail) == [head |-> head, frames |-> frames, tail |-> tail]
StreamOf(script) ==
    script.head
        \o Flatten([i \in 1..Len(script.frames) |-> serialize(script.frames[i])])
        \o script.tail
Quiet == Script(<< >>, << >>, << >>)

\* a connection that has not read anything yet
Task(script) ==
    [frames |-> script.frames, stream |-> StreamOf(script), nread |-> 0,
     buf |-> << >>, out |-> << >>, pc |-> "read", args |-> << >>, snap |-> make_store]

\* the bytes the client has sent and reader.read has not returned yet
Inbox(c) == SliceFrom(conn[c].stream, conn[c].nread)
\* the bytes reader.read has returned so far
Delivered(c) == SliceTo(conn[c].stream, conn[c].nread)

SoloScripts ==
    {Script(<< >>, <<Request(<<"SET", "k1", "1">>), Request(<<"GET", "k1">>)>>, << >>),
     Script(<< >>, <<SimpleString(Spell("PING")), Request(<<"PING">>)>>, << >>),
     Script(<<"?", CR, LF>>, <<Request(<<"PING">>)>>, << >>),
     Script(<< >>, <<Request(<<"INCR", "k1">>)>>, <<"*", "1", CR, LF, "$", "4", CR, LF, "P", "I">>),
     Script(<< >>, <<Request(<<"SET", "k1", "1", "EX", "abc">>), Request(<<"PING">>)>>, << >>),
     Script(<< >>, <<Request(<<"SET", "k1", "abc">>), Request(<<"INCR", "k1">>)>>, << >>)}

PairScripts ==
    {<<Script(<< >>, <<Request(<<"INCR", "k1">>)>>, << >>),
       Script(<< >>, <<Request(<<"INCR", "k1">>)>>, << >>)>>,
     <<Script(<< >>, <<Request(<<"INCR">>)>>, << >>),
       Script(<< >>, <<Request(<<"INCR", "k1">>)>>, << >>)>>,
     <<Script(<< >>, <<Request(<<"SET", "k1", "1">>), Request(<<"GET", "k1">>)>>, << >>),
       Script(<< >>, <<Request(<<"INCR", "k2">>)>>, << >>)>>}

Scenarios ==
    {[c \in Conns |-> IF c = "c1" THEN script ELSE Quiet] : script \in SoloScripts}
    \cup {[c \in Conns |-> IF c = "c1" THEN pair[1] ELSE pair[2]] : pair \in PairScripts}

ServerInit ==
    /\ \E scenario \in Scenarios : conn = [c \in Conns |-> Task(scenario[c])]
    /\ lock = None
    /\ store = make_store
    /\ now = 0
    /\ last = NoCommand
    /\ CodecIdle
    /\ ObjectsIdle

Goes(c, task) ==
    /\ conn' = [conn EXCEPT ![c] = task]
    /\ UNCHANGED <<now, last, codecVars, objectVars>>

\* reader.read that returns b"" at EOF without the loop ending
Read_past_eof(c) ==
    /\ conn[c].pc = "read"
    /\ IF Inbox(c) = << >>
       THEN Goes(c, conn[c])
       ELSE \E n \in 1..Len(Inbox(c)) :
                Goes(c, [conn[c] EXCEPT !.buf = Buffered(@, SliceTo(Inbox(c), n)),
                                        !.nread = @ + n,
                                        !.pc = "parse"])
    /\ UNCHANGED <<store, lock>>

\* chunk = await reader.read(4096): some of the bytes sent, or b"" at EOF,
\* which ends the loop and closes the writer
Read(c) ==
    /\ conn[c].pc = "read"
    /\ IF Inbox(c) = << >>
       THEN Goes(c, [conn[c] EXCEPT !.pc = "closed"])
       ELSE \E n \in 1..Len(Inbox(c)) :
                Goes(c, [conn[c] EXCEPT !.buf = Buffered(@, SliceTo(Inbox(c), n)),
                                        !.nread = @ + n,
                                        !.pc = "parse"])
    /\ UNCHANGED <<store, lock>>

\* reader.read raises: the handler logs the error and closes the writer
ReadFails(c) ==
    /\ conn[c].pc = "read"
    /\ Inbox(c) # << >>
    /\ Goes(c, [conn[c] EXCEPT !.pc = "closed"])
    /\ UNCHANGED <<store, lock>>

\* one round of `while buf`: parse a frame and dispatch it up to the point
\* where its handler returns, raises or waits for the lock
ParseFrame(c) ==
    /\ conn[c].pc = "parse"
    /\ \E frame \in {parse(conn[c].buf)} :
        IF conn[c].buf = << >> \/ ~frame.ok
        THEN Goes(c, [conn[c] EXCEPT !.pc = "read"])
        ELSE IF frame.value.t # "array"
        THEN Goes(c, [conn[c] EXCEPT !.buf = frame.rest,
                                     !.out = Written(@, ExpectedArray)])
        ELSE IF TakesLock(Argv(frame.value))
        THEN Goes(c, [conn[c] EXCEPT !.buf = frame.rest,
                                     !.args = Argv(frame.value),
                                     !.pc = "lock"])
        ELSE \E result \in {dispatch(store, now, Argv(frame.value)).reply} :
                IF result.t = "raise"
                THEN Goes(c, [conn[c] EXCEPT !.buf = frame.rest, !.pc = "closed"])
                ELSE Goes(c, [conn[c] EXCEPT !.buf = frame.rest,
                                             !.out = Written(@, result),
                                             !.pc = "drain"])
    /\ UNCHANGED <<store, lock>>

\* the handler reads state._store without taking the lock
AcquireUnlocked(c) ==
    /\ conn[c].pc = "lock"
    /\ Goes(c, [conn[c] EXCEPT !.snap = store, !.pc = "install"])
    /\ UNCHANGED <<store, lock>>

\* async with _lock: the handler enters and reads state._store
Acquire(c) ==
    /\ conn[c].pc = "lock"
    /\ LockFree
    /\ lock' = Some(c)
    /\ Goes(c, [conn[c] EXCEPT !.snap = store, !.pc = "install"])
    /\ UNCHANGED store

\* the handler returns its reply without installing the new keyspace
InstallReplyOnly(c) ==
    /\ conn[c].pc = "install"
    /\ \E result \in {dispatch(conn[c].snap, now, conn[c].args)} :
        IF result.reply.t = "raise"
        THEN Goes(c, [conn[c] EXCEPT !.pc = "closed"])
        ELSE Goes(c, [conn[c] EXCEPT !.out = Written(@, result.reply), !.pc = "drain"])
    /\ lock' = None
    /\ UNCHANGED store

\* a locked section that is left with the lock still held when the handler
\* returns an error or raises
Install_keeps_lock_on_error(c) ==
    /\ conn[c].pc = "install"
    /\ \E result \in {dispatch(conn[c].snap, now, conn[c].args)} :
        /\ store' = result.store
        /\ IF result.reply.t = "raise"
           THEN Goes(c, [conn[c] EXCEPT !.pc = "closed"])
           ELSE Goes(c, [conn[c] EXCEPT !.out = Written(@, result.reply), !.pc = "drain"])
        /\ lock' = IF result.reply.t \in {"raise", "err"} THEN lock ELSE None

\* the handler computes the new keyspace from the one it read, installs
\* it, leaves the locked section and returns, or raises
Install(c) ==
    /\ conn[c].pc = "install"
    /\ \E result \in {dispatch(conn[c].snap, now, conn[c].args)} :
        /\ store' = result.store
        /\ IF result.reply.t = "raise"
           THEN Goes(c, [conn[c] EXCEPT !.pc = "closed"])
           ELSE Goes(c, [conn[c] EXCEPT !.out = Written(@, result.reply), !.pc = "drain"])
    /\ lock' = None

\* await writer.drain()
Drain(c) ==
    /\ conn[c].pc = "drain"
    /\ Goes(c, [conn[c] EXCEPT !.pc = "parse"])
    /\ UNCHANGED <<store, lock>>

\* the loop `while buf` of handle_client run on a whole buffer with no other
\* task in between: the keyspace, the bytes left in buf, the replies
\* written and whether an exception ended the handler
RECURSIVE RunBuffer(_, _, _)
RunBuffer(s, buf, out) ==
    LET frame == parse(buf)
    IN  IF buf = << >> \/ ~frame.ok
        THEN [store |-> s, buf |-> buf, out |-> out, raised |-> FALSE]
        ELSE IF frame.value.t # "array"
        THEN RunBuffer(s, frame.rest, Written(out, ExpectedArray))
        ELSE LET result == dispatch(s, now, Argv(frame.value))
             IN  IF result.reply.t = "raise"
                 THEN [store |-> result.store, buf |-> frame.rest, out |-> out,
                       raised |-> TRUE]
                 ELSE RunBuffer(result.store, frame.rest, Written(out, result.reply))

ServerNext ==
    \E c \in Conns :
        \/ Read(c) \/ ReadFails(c) \/ ParseFrame(c)
        \/ Acquire(c) \/ Install(c) \/ Drain(c)

ServerSpec == ServerInit /\ [][ServerNext]_vars

\* ------------------------------------------------------------------------
\* Vocabulary of the properties
\* ------------------------------------------------------------------------

IsInt(reply, n) == reply.t = "int" /\ reply.v = n
IsNil(reply) == reply.t = "bulk" /\ reply.v = None
IsText(reply, text) == reply.t = "bulk" /\ reply.v = Some(StrVal(text))
IsOK(reply) == reply.t = "simple" /\ reply.v = "OK"

\* the key is physically in the keyspace, expired or not
Stored(s, k) == k \in DOMAIN s
\* the key is in the keyspace and a read observes it
Live(s, t, k) == store_get(s, t, k) # None
\* the key is in the keyspace but its expires_at is earlier than t
Expired(s, t, k) == Stored(s, k) /\ s[k].expires_at # None /\ s[k].expires_at[1] < t
Holds(s, k, kind) == Stored(s, k) /\ s[k].value.kind = kind

\* the ranked list is strictly increasing by (score, member)
StrictlySorted(ranked) ==
    \A i \in 1..(Len(ranked) - 1) : TupleLess(ranked[i], ranked[i + 1])

\* the two structures of a sorted set agree
ZsetConsistent(zset) ==
    /\ Cardinality(DOMAIN zset.scores) = Len(zset.ranked)
    /\ \A i \in 1..Len(zset.ranked) :
        /\ zset.ranked[i][2] \in DOMAIN zset.scores
        /\ zset.scores[zset.ranked[i][2]] = zset.ranked[i][1]
    /\ StrictlySorted(zset.ranked)

\* ------------------------------------------------------------------------
\* C1: after any sequence of ZADD, ZREM and ZINCRBY every stored sorted set
\* has a score map and a ranked list of the same size, every ranked pair
\* carries the score the map holds for its member, and the ranked list is
\* strictly increasing by (score, member).
\* The code breaks it: ZADD of a member with the score it already has
\* inserts the pair a second time.
\* ------------------------------------------------------------------------
C1_SortedSetInvariant ==
    \A k \in DOMAIN store : Holds(store, k, "zset") => ZsetConsistent(store[k].value)

\* ------------------------------------------------------------------------
\* C2: ZADD K score member executed twice in a row: the second call returns
\* 0 and leaves the sorted set exactly as the first call left it.
\* The code returns 0 but adds the pair to the ranked list again.
\* ------------------------------------------------------------------------
PlainZaddInputs == {<<K1, sc, m>> : sc \in {"1", "2"}, m \in Members}

C2_ZaddIdempotent ==
    \A args \in PlainZaddInputs :
        LET first == handle_zadd(store, now, args)
            second == handle_zadd(first.store, now, args)
        IN  first.reply.t = "int" =>
                /\ IsInt(second.reply, 0)
                /\ second.store = first.store

\* ------------------------------------------------------------------------
\* C3: ZADD K of pairs whose members are not in K, followed by ZREM K of the
\* same members, returns the keyspace to its pre-ZADD state: K is absent
\* again if it was absent, and otherwise holds the same members, scores,
\* ranked list and expiry as before.
\* The code fails it when a pair is repeated in the ZADD: the duplicate
\* ranked entry of C1 survives the ZREM.
\* ------------------------------------------------------------------------
RoundTripInputs ==
    {<<"1", "a">>, <<"2", "b">>, <<"1", "a", "2", "b">>, <<"1", "a", "2", "a">>,
     <<"1", "a", "1", "a">>}

\* the members of a score/member argument list, in order
RECURSIVE MembersOf(_)
MembersOf(tail) ==
    IF Len(tail) < 2 THEN << >>
    ELSE <<tail[2]>> \o MembersOf(SubSeq(tail, 3, Len(tail)))

\* no member of the list is in the sorted set a read of k observes
NoneInSet(s, t, k, members) ==
    LET got == _get_zset(s, t, k)
    IN  got.tag = "ok" => \A i \in 1..Len(members) : members[i] \notin DOMAIN got.zset.scores

C3_ZaddZremRoundTrip ==
    \A k \in Keys, tail \in RoundTripInputs :
        LET added == handle_zadd(store, now, <<k>> \o tail)
            removed == handle_zrem(added.store, now, <<k>> \o MembersOf(tail))
        IN  NoneInSet(store, now, k, MembersOf(tail)) =>
                IF Live(store, now, k)
                THEN Stored(removed.store, k) /\ removed.store[k] = store[k]
                ELSE ~Live(removed.store, now, k)

\* ------------------------------------------------------------------------
\* C4: in every reachable state a key that holds a sorted set has at least
\* one member.
\* The code breaks it: ZADD K XX on an absent key skips every pair and still
\* stores the (empty) sorted set.
\* ------------------------------------------------------------------------
C4_NoEmptySortedSet ==
    \A k \in DOMAIN store :
        Holds(store, k, "zset") => DOMAIN store[k].value.scores # {}

\* ------------------------------------------------------------------------
\* C5: in every reachable state a key that holds a hash has at least one
\* field: HDEL of the last field deletes the key, and no hash write stores
\* an empty hash.
\* ------------------------------------------------------------------------
C5_NoEmptyHash ==
    \A k \in DOMAIN store :
        Holds(store, k, "hash") => Len(store[k].value.inner) >= 1

\* HDEL has just removed the last field of the hash and the key with it
C5_Witness ==
    /\ last.cmd = "HDEL"
    /\ last.reply.t = "int" /\ last.reply.v >= 1
    /\ ~Stored(store, last.key)

\* ------------------------------------------------------------------------
\* C6: a key whose entry has an expires_at earlier than now, though still
\* stored, reads as absent: GET returns nil, EXISTS counts 0 for it, and
\* KEYS with a matching pattern does not list it.
\* ------------------------------------------------------------------------
C6_ExpiredReadsAsAbsent ==
    \A k \in Keys :
        Expired(store, now, k) =>
            /\ IsNil(handle_get(store, now, <<k>>).reply)
            /\ IsInt(handle_exists(store, now, <<k>>).reply, 0)
            /\ IsInt(handle_exists(store, now, <<k, k>>).reply, 0)
            /\ \A pattern \in {"*", "k1*"} :
                fnmatch(k, pattern) => k \notin handle_keys(store, now, <<pattern>>).reply.v

\* GET has just answered nil for a key that is still stored
C6_Witness ==
    /\ last.cmd = "GET"
    /\ IsNil(last.reply)
    /\ Expired(store, now, last.key)

\* ------------------------------------------------------------------------
\* C7: TTL K returns -2 when K is missing or its entry has expired, -1 when
\* K has no expiry, and otherwise the floor of the remaining seconds, never
\* below 0.
\* The code returns 0, not -2, for an expired entry that is still stored.
\* ------------------------------------------------------------------------
C7_TtlReply ==
    \A k \in Keys :
        LET reply == handle_ttl(store, now, <<k>>).reply
        IN  IF ~Live(store, now, k) THEN IsInt(reply, -2)
            ELSE IF store[k].expires_at = None THEN IsInt(reply, -1)
            ELSE /\ reply.t = "int"
                 /\ reply.v >= 0
                 \* floor(remaining ticks / 2)
                 /\ 2 * reply.v <= store[k].expires_at[1] - now
                 /\ store[k].expires_at[1] - now < 2 * (reply.v + 1)

\* ------------------------------------------------------------------------
\* C8: after SET K V succeeds, whatever K held before, GET K returns V; K's
\* expiry is now + ttl when EX/PX was given and is cleared (TTL K = -1)
\* when no TTL was given.
\* The code accepts a negative TTL: SET K V EX -1 answers OK and GET K
\* returns nil.
\* ------------------------------------------------------------------------
\* the ttl, in ticks, that the SET arguments ask for
AskedTtl(args) ==
    IF Len(args) < 4 THEN None
    ELSE IF upper(args[3]) = "EX" THEN Some(2 * float(args[4])[1])
    ELSE Some((2 * float(args[4])[1]) \div 1000)

C8_SetThenGet ==
    \A args \in SetInputs :
        LET out == handle_set(store, now, args)
            key == args[1]
        IN  IsOK(out.reply) =>
                /\ IsText(handle_get(out.store, now, <<key>>).reply, args[2])
                /\ Stored(out.store, key)
                /\ IF AskedTtl(args) = None
                   THEN /\ out.store[key].expires_at = None
                        /\ IsInt(handle_ttl(out.store, now, <<key>>).reply, -1)
                   ELSE out.store[key].expires_at = Some(now + AskedTtl(args)[1])

\* ------------------------------------------------------------------------
\* C9: a hash or sorted-set mutation that leaves the key in place (HSET,
\* HMSET, HSETNX, HINCRBY, HINCRBYFLOAT, non-emptying HDEL, ZADD, ZINCRBY,
\* non-emptying ZREM) on an existing non-expired key leaves the key's
\* expires_at unchanged.
\* ------------------------------------------------------------------------
CollectionWrites ==
    {<<"HSET">> \o a : a \in HsetInputs}
    \cup {<<"HMSET">> \o a : a \in HsetInputs}
    \cup {<<"HSETNX", k, f, "abc">> : k \in Keys, f \in Fields}
    \cup {<<"HINCRBY", k, f, "1">> : k \in Keys, f \in Fields}
    \cup {<<"HINCRBYFLOAT", k, f, "1">> : k \in Keys, f \in Fields}
    \cup {<<"HDEL">> \o a : a \in HdelInputs}
    \cup {<<"ZADD">> \o a : a \in ZaddInputs}
    \cup {<<"ZINCRBY">> \o a : a \in ZincrbyInputs}
    \cup {<<"ZREM">> \o a : a \in ZremInputs}

C9_MutationsKeepExpiry ==
    \A raw_args \in CollectionWrites :
        LET key == raw_args[2]
            out == dispatch(store, now, raw_args)
        IN  Live(store, now, key) /\ Stored(out.store, key) =>
                out.store[key].expires_at = store[key].expires_at

\* ZADD has just added a member to a live sorted set that carries an expiry
C9_Witness ==
    /\ last.cmd = "ZADD"
    /\ IsInt(last.reply, 1)
    /\ Live(store, now, last.key)
    /\ store[last.key].expires_at # None
    /\ Cardinality(DOMAIN store[last.key].value.scores) = 2

\* ------------------------------------------------------------------------
\* C10: EXPIRE on a missing or expired key returns 0 and leaves the
\* keyspace unchanged; EXPIRE on a live key returns 1, sets the expiry to
\* now + seconds and keeps the stored value, of any kind, unchanged.
\* ------------------------------------------------------------------------
C10_Expire ==
    \A args \in ExpireInputs :
        LET key == args[1]
            out == handle_expire(store, now, args)
        IN  IF ~Live(store, now, key)
            THEN IsInt(out.reply, 0) /\ out.store = store
            ELSE /\ IsInt(out.reply, 1)
                 /\ DOMAIN out.store = DOMAIN store
                 /\ out.store[key].expires_at = Some(now + 2 * int(args[2])[1])
                 /\ out.store[key].value = store[key].value
                 /\ \A k \in DOMAIN store : k # key => out.store[k] = store[k]

\* EXPIRE has just answered 0 for an expired key that is still stored
C10_Witness ==
    /\ last.cmd = "EXPIRE"
    /\ IsInt(last.reply, 0)
    /\ Expired(store, now, last.key)

\* ------------------------------------------------------------------------
\* C11: after DEL of a list of keys, EXISTS K returns 0 and GET K returns
\* nil for every key K named, whatever kind of value and whatever expiry K
\* had; every key not named keeps its entry.
\* ------------------------------------------------------------------------
K2 == "k2"
\* entries a second key can hold
OtherEntries ==
    {StoreEntry(StrVal("abc"), None), StoreEntry(StrVal("1"), Some(2)),
     StoreEntry(HashVal(<<<<"f1", "1">>>>), None)}
    \cup {store[k] : k \in DOMAIN store}
\* the reachable keyspace, alone or with a second key beside it
TwoKeyStores == {store} \cup {DictPut(store, K2, e) : e \in OtherEntries}
DelInputs == {<<K1>>, <<K2>>, <<K1, K1>>, <<K1, K2>>, <<K2, K1>>}

C11_DelRemoves ==
    \A s \in TwoKeyStores : \A args \in DelInputs :
        LET out == handle_del(s, now, args)
        IN  /\ out.reply.t = "int"
            /\ \A k \in SeqSet(args) :
                /\ IsInt(handle_exists(out.store, now, <<k>>).reply, 0)
                /\ IsNil(handle_get(out.store, now, <<k>>).reply)
                /\ ~Stored(out.store, k)
            /\ \A k \in DOMAIN s \ SeqSet(args) :
                Stored(out.store, k) /\ out.store[k] = s[k]
            /\ DOMAIN out.store \subseteq DOMAIN s

\* DEL has just removed a key that was stored
C11_Witness ==
    /\ last.cmd = "DEL"
    /\ last.reply.t = "int" /\ last.reply.v >= 1
    /\ ~Stored(store, last.key)
    /\ IsInt(handle_exists(store, now, <<last.key>>).reply, 0)
    /\ IsNil(handle_get(store, now, <<last.key>>).reply)

\* ------------------------------------------------------------------------
\* C12: RESP round trip: for every RESP value v (SimpleString, Error,
\* Integer, BulkString with text or nil, and Arrays of these, nested),
\* parse(serialize(v)) returns v and an empty remaining buffer.
\* serialize writes the number of characters of a BulkString as its length
\* and parse counts bytes: a text with a non-ASCII character does not come
\* back.
\* ------------------------------------------------------------------------
C12_RoundTrip ==
    HasParsed => received.ok /\ received.value = resp /\ received.rest = << >>

\* no other connection sends anything
Solo(c) == \A d \in Conns \ {c} : conn[d].stream = << >>
IsPrefix(a, b) == Len(a) <= Len(b) /\ SubSeq(b, 1, Len(a)) = a

\* ------------------------------------------------------------------------
\* C13: partial reads never discard buffered data: however the byte stream
\* of a connection is split into read chunks, the handler has written, each
\* time it waits for the next chunk, exactly the replies it writes when the
\* bytes read so far arrive as one chunk, and it holds the same unparsed
\* bytes; so a frame split across reads gets no reply until it is complete
\* and then one reply, and at the end of the stream the replies are those
\* of the stream read in one chunk.
\* ------------------------------------------------------------------------
C13_PartialReads ==
    \A c \in Conns :
        Solo(c) =>
            LET sofar == RunBuffer(make_store, Delivered(c), << >>)
                whole == RunBuffer(make_store, conn[c].stream, << >>)
            IN  /\ IsPrefix(conn[c].out, sofar.out)
                /\ conn[c].pc = "read" =>
                        /\ conn[c].out = sofar.out
                        /\ conn[c].buf = sofar.buf
                        /\ store = sofar.store
                /\ conn[c].pc = "closed" => conn[c].out = sofar.out
                /\ conn[c].pc = "closed" /\ Inbox(c) = << >> => conn[c].out = whole.out

\* one frame has been answered and the first bytes of the next frame wait
\* in the buffer for a further read
C13_Witness ==
    /\ Solo("c1")
    /\ conn["c1"].pc = "read"
    /\ Len(conn["c1"].out) = 1
    /\ conn["c1"].buf # << >>
    /\ Head(conn["c1"].buf) = "*"
    /\ Len(Inbox("c1")) = 1

\* ------------------------------------------------------------------------
\* C14: a frame whose leading byte is not one of + - : $ * is malformed,
\* which is not the same as incomplete: the handler never waits for more
\* bytes with a malformed frame at the head of its buffer, it closes the
\* connection.
\* parse raises ValueError for both, and the handler keeps the buffer and
\* goes back to reading.
\* ------------------------------------------------------------------------
Prefixes == {"+", "-", ":", "$", "*"}
MalformedHead(buf) == buf # << >> /\ Head(buf) \notin Prefixes

C14_MalformedCloses ==
    \A c \in Conns : conn[c].pc = "read" => ~MalformedHead(conn[c].buf)

\* the client sends whole frames only
WholeFrames(c) == conn[c].stream = StreamOf(Script(<< >>, conn[c].frames, << >>))
\* the client sends whole frames only, and no handler raises on them
CleanStream(c) ==
    /\ WholeFrames(c)
    /\ ~RunBuffer(make_store, conn[c].stream, << >>).raised
\* the handler has read the whole stream and then EOF
ReadToEOF(c) == conn[c].pc = "closed" /\ Inbox(c) = << >>
ArrayFrames(frames) == SelectSeq(frames, LAMBDA f : f.t = "array")
\* the replies at the positions of the array frames
ArrayReplies(frames, out) ==
    LET at == {k \in 1..Len(frames) : frames[k].t = "array"}
        RECURSIVE Pick(_)
        Pick(k) == IF k > Len(frames) THEN << >>
                   ELSE (IF k \in at THEN <<out[k]>> ELSE << >>) \o Pick(k + 1)
    IN  Pick(1)

\* ------------------------------------------------------------------------
\* C15: a top-level frame that is not an Array gets the reply
\* -ERR expected array; the connection is not closed and the frames that
\* follow get their normal replies: once the handler has read the stream
\* to EOF, every frame has one reply, and the replies to the array frames
\* are those they get when the non-array frames are never sent.
\* ------------------------------------------------------------------------
C15_NonArrayContinues ==
    \A c \in Conns :
        Solo(c) /\ CleanStream(c) =>
            /\ \A k \in 1..Len(conn[c].out) :
                conn[c].frames[k].t # "array"
                    => conn[c].out[k] = RESPError("ERR expected array")
            /\ ReadToEOF(c) =>
                /\ Len(conn[c].out) = Len(conn[c].frames)
                /\ ArrayReplies(conn[c].frames, conn[c].out)
                    = RunBuffer(make_store,
                                StreamOf(Script(<< >>, ArrayFrames(conn[c].frames), << >>)),
                                << >>).out

\* the connection has answered a SimpleString frame with the error and the
\* PING after it with PONG
C15_Witness ==
    /\ Solo("c1")
    /\ ReadToEOF("c1")
    /\ Len(conn["c1"].frames) = 2
    /\ conn["c1"].frames[1].t = "simple"
    /\ conn["c1"].out = <<RESPError("ERR expected array"), PONG>>

\* the replies to a sequence of frames dispatched one after the other on
\* the keyspace s, with nothing in between
RECURSIVE Answers(_, _)
Answers(s, frames) ==
    IF frames = << >> THEN << >>
    ELSE IF Head(frames).t # "array"
    THEN <<RESPError("ERR expected array")>> \o Answers(s, Tail(frames))
    ELSE LET result == dispatch(s, now, Argv(Head(frames)))
         IN  <<result.reply>> \o Answers(result.store, Tail(frames))

\* the keys the requests of a connection name
KeysOf(frames) ==
    {Argv(frames[k])[2] : k \in {j \in 1..Len(frames) :
                                    frames[j].t = "array" /\ Len(Argv(frames[j])) >= 2}}
\* no other connection names a key of c
Untouched(c) ==
    \A d \in Conns \ {c} : KeysOf(conn[d].frames) \cap KeysOf(conn[c].frames) = {}
\* the number of frames of c whose last byte reader.read has returned
FramesRead(c) ==
    Cardinality({k \in 1..Len(conn[c].frames) :
        Len(StreamOf(Script(<< >>, SubSeq(conn[c].frames, 1, k), << >>))) <= conn[c].nread})

\* ------------------------------------------------------------------------
\* C16: on one connection the commands are answered strictly in arrival
\* order: the k-th reply written is the reply to the k-th complete frame,
\* every complete frame gets exactly one reply, none before it is complete,
\* and a command sees the effects of the earlier commands of its
\* connection, whether the frames arrive in one read or in several and
\* while another connection runs commands on other keys.
\* A frame whose handler raises (SET with a non-numeric EX) gets no reply,
\* and neither do the frames after it.
\* ------------------------------------------------------------------------
C16_Fifo ==
    \A c \in Conns :
        WholeFrames(c) /\ Untouched(c) =>
            /\ IsPrefix(conn[c].out, Answers(make_store, conn[c].frames))
            /\ Len(conn[c].out) <= FramesRead(c)
            /\ conn[c].pc \in {"read", "closed"} => Len(conn[c].out) = FramesRead(c)

\* a request of each command that has a locked section
WriteRequests ==
    {<<"SET", K1, "1">>, <<"SET", K1, "abc", "EX", "1">>, <<"DEL", K1>>, <<"INCR", K1>>,
     <<"EXPIRE", K1, "1">>, <<"HSET", K1, "f2", "1">>, <<"HMSET", K1, "f1", "abc">>,
     <<"HSETNX", K1, "f2", "abc">>, <<"HDEL", K1, "f1">>, <<"HINCRBY", K1, "f1", "1">>,
     <<"HINCRBYFLOAT", K1, "f1", "1">>, <<"ZADD", K1, "2", "a">>, <<"ZADD", K1, "XX", "2", "a">>,
     <<"ZREM", K1, "a">>, <<"ZINCRBY", K1, "1", "a">>}
\* the keyspace as it is, and with a hash or a sorted set at the key
KeyspaceSamples ==
    {store,
     DictPut(store, K1, StoreEntry(HashVal(<<<<"f1", "1">>>>), None)),
     DictPut(store, K1, StoreEntry(SortedSet([m \in {"a"} |-> 1], <<<<1, "a">>>>), None))}

\* ------------------------------------------------------------------------
\* C17: at most one handler is inside a keyspace-mutating section at any
\* time; a handler inside one holds the write lock, and the keyspace it
\* read on entering is still the installed one, so it holds the lock from
\* its read of the keyspace reference to the installation of the new one;
\* and every request of SET, DEL, INCR, EXPIRE, HSET, HMSET, HSETNX, HDEL,
\* HINCRBY, HINCRBYFLOAT, ZADD, ZREM, ZINCRBY that changes the keyspace
\* goes through such a section.
\* ------------------------------------------------------------------------
C17_WriteLock ==
    /\ Cardinality({c \in Conns : conn[c].pc = "install"}) <= 1
    /\ \A c \in Conns :
        conn[c].pc = "install" => lock = Some(c) /\ conn[c].snap = store
    /\ lock # None => conn[lock[1]].pc = "install"
    /\ \A s \in KeyspaceSamples : \A raw_args \in WriteRequests :
        dispatch(s, now, raw_args).store # s => TakesLock(raw_args)

\* one handler is inside its locked section and the other connection's
\* handler waits for the lock
C17_Witness ==
    /\ conn["c1"].pc = "install"
    /\ conn["c2"].pc = "lock"
    /\ lock = Some("c1")

\* ------------------------------------------------------------------------
\* C18: no lost update: when two connections each issue INCR on the same
\* key and the handlers interleave in any way, the key's value after n of
\* the INCRs have been answered is its initial value plus n, and the
\* replies are the distinct consecutive values up to it; after both, the
\* value is the initial value plus 2.
\* ------------------------------------------------------------------------
BothIncr == \A c \in Conns : conn[c].frames = <<Request(<<"INCR", "k1">>)>>

C18_NoLostUpdate ==
    BothIncr =>
        LET done == {c \in Conns : conn[c].out # << >>}
        IN  done # {} =>
                /\ \A c \in done : conn[c].out[1].t = "int"
                /\ {conn[c].out[1].v : c \in done} = 1..Cardinality(done)
                /\ Stored(store, "k1")
                /\ store["k1"].value = StrVal(str(Cardinality(done)))

\* both INCRs are answered, the second connection's first
C18_Witness ==
    /\ BothIncr
    /\ conn["c1"].out = <<IntReply(2)>>
    /\ conn["c2"].out = <<IntReply(1)>>
    /\ store["k1"].value = StrVal("2")

\* the number of commands of c that have run to their end
Applied(c) == Len(conn[c].out)
\* the orders in which the commands that have run can be put one after the
\* other, each connection's commands in its own order
Schedules ==
    LET n == Applied("c1") + Applied("c2")
    IN  {order \in [1..n -> Conns] :
            \A c \in Conns : Cardinality({i \in 1..n : order[i] = c}) = Applied(c)}
\* whole commands dispatched one after the other in the given order of
\* connections, each connection's next frame at its turn: the keyspace and
\* the replies written to each connection
RECURSIVE Sequential(_, _, _)
Sequential(order, s, outs) ==
    IF order = << >> THEN [store |-> s, out |-> outs]
    ELSE LET c == Head(order)
             frame == conn[c].frames[Len(outs[c]) + 1]
             result == IF frame.t # "array" THEN Returns(s, ExpectedArray)
                       ELSE dispatch(s, now, Argv(frame))
         IN  Sequential(Tail(order), result.store,
                        [outs EXCEPT ![c] = Written(@, result.reply)])

\* ------------------------------------------------------------------------
\* C19: commands are atomic: in every state reached by any interleaving of
\* the handlers of several connections, also after a connection reached
\* EOF or failed in the middle of its stream, the keyspace and the replies
\* written to every connection are those of the commands answered so far
\* executed whole, one after the other, in some order that keeps each
\* connection's own order; so no state shows a half-applied command.
\* ------------------------------------------------------------------------
C19_Atomic ==
    \E order \in Schedules :
        LET run == Sequential(order, make_store, [c \in Conns |-> << >>])
        IN  /\ run.store = store
            /\ \A c \in Conns : run.out[c] = conn[c].out

\* the first connection failed in the middle of its stream, with one of its
\* two commands applied, and the other connection's command is applied too
C19_Witness ==
    /\ conn["c1"].pc = "closed"
    /\ Inbox("c1") # << >>
    /\ Len(conn["c1"].frames) = 2
    /\ Applied("c1") = 1
    /\ Applied("c2") = 1
    /\ Stored(store, "k1") /\ Stored(store, "k2")

\* requests with a wrong number of arguments
ArityErrors ==
    {<<"SET", "k1">>, <<"INCR">>, <<"EXPIRE", "k1">>, <<"HSET", "k1", "f1">>,
     <<"HSET", "k1", "f1", "1", "f2">>, <<"HMSET", "k1", "f1">>, <<"HSETNX", "k1", "f1">>,
     <<"HDEL", "k1">>, <<"HINCRBY", "k1", "f1">>, <<"HINCRBYFLOAT", "k1", "f1">>,
     <<"ZADD", "k1", "1">>, <<"ZREM", "k1">>, <<"ZINCRBY", "k1", "1">>}
\* requests with an argument that is not the number it has to be, with
\* incompatible ZADD flags, or with a syntax error
ShapeErrors ==
    {<<"SET", "k1", "1", "EX", "abc">>, <<"SET", "k1", "1", "PX", "abc">>,
     <<"EXPIRE", "k1", "abc">>, <<"HINCRBY", "k1", "f1", "abc">>,
     <<"HINCRBYFLOAT", "k1", "f1", "abc">>, <<"ZADD", "k1", "abc", "a">>,
     <<"ZINCRBY", "k1", "abc", "a">>, <<"ZADD", "k1", "NX", "XX", "1", "a">>,
     <<"ZADD", "k1", "GT", "LT", "1", "a">>, <<"ZADD", "k1", "NX", "GT", "1", "a">>,
     <<"ZADD", "k1", "NX", "1">>, <<"ZADD", "k1", "1", "a", "2">>}
\* the first frame of c is a rejected request and handle_client has
\* dispatched it
Rejected(c) ==
    /\ conn[c].frames # << >>
    /\ Head(conn[c].frames).t = "array"
    /\ Argv(Head(conn[c].frames)) \in ArityErrors \cup ShapeErrors
Dispatched(c) ==
    conn[c].nread - Len(conn[c].buf) >= Len(serialize(Head(conn[c].frames)))

\* ------------------------------------------------------------------------
\* C20: a command rejected for its arity or for the shape of an argument
\* (wrong number of arguments, a non-integer or non-float argument,
\* incompatible ZADD flags, a syntax error) returns an error reply without
\* reaching the write lock and leaves the keyspace unchanged, whatever the
\* keyspace is and whoever holds the lock; a connection that sent one has
\* its error reply as soon as the frame is dispatched and never waits for
\* the lock.
\* SET with a non-numeric EX or PX and EXPIRE with a non-integer count raise
\* instead of returning an error.
\* ------------------------------------------------------------------------
C20_RejectedWithoutLock ==
    /\ \A s \in KeyspaceSamples : \A raw_args \in ArityErrors \cup ShapeErrors :
        /\ ~TakesLock(raw_args)
        /\ dispatch(s, now, raw_args).reply.t = "err"
        /\ dispatch(s, now, raw_args).store = s
    /\ \A c \in Conns :
        Rejected(c) =>
            /\ conn[c].pc \notin {"lock", "install"}
            /\ Dispatched(c) => conn[c].out # << >> /\ conn[c].out[1].t = "err"

\* SET with a non-numeric EX or PX, and EXPIRE with a non-integer count
NonNumeric ==
    {<<"SET", "k1", "1", "EX", "abc">>, <<"SET", "k1", "1", "PX", "abc">>,
     <<"EXPIRE", "k1", "abc">>}

\* ------------------------------------------------------------------------
\* C21: SET K V EX x and SET K V PX x with a non-numeric x, and EXPIRE K x
\* with a non-integer x, are answered with the error 'ERR value is not an
\* integer or out of range' and leave the keyspace unchanged, whatever the
\* keyspace holds; and the connection goes on: once the handler has read a
\* stream of whole frames to EOF, every frame has its reply, the frames
\* after such a command too.
\* The handlers raise ValueError instead, and handle_client closes the
\* connection without a reply.
\* ------------------------------------------------------------------------
C21_NonNumericRejected ==
    /\ \A s \in KeyspaceSamples : \A raw_args \in NonNumeric :
        /\ dispatch(s, now, raw_args).reply
                = RESPError("ERR value is not an integer or out of range")
        /\ dispatch(s, now, raw_args).store = s
    /\ \A c \in Conns :
        WholeFrames(c) /\ ReadToEOF(c) => Len(conn[c].out) = Len(conn[c].frames)

\* each command that needs an argument, with fewer arguments than its
\* handler reads
TooFew ==
    {<<"SET">>, <<"SET", "k1">>, <<"GET">>, <<"DEL">>, <<"EXISTS">>, <<"TTL">>,
     <<"INCR">>, <<"EXPIRE">>, <<"EXPIRE", "k1">>,
     <<"HSET">>, <<"HSET", "k1">>, <<"HSET", "k1", "f1">>, <<"HMSET", "k1", "f1">>,
     <<"HSETNX", "k1", "f1">>, <<"HDEL">>, <<"HDEL", "k1">>, <<"HINCRBY", "k1", "f1">>,
     <<"HINCRBYFLOAT", "k1", "f1">>, <<"ZADD">>, <<"ZADD", "k1">>, <<"ZADD", "k1", "1">>,
     <<"ZREM">>, <<"ZREM", "k1">>, <<"ZINCRBY", "k1", "1">>}

\* ------------------------------------------------------------------------
\* C22: a command that requires at least one argument and is invoked with
\* fewer arguments than its minimum (GET, TTL, INCR, DEL or EXISTS with
\* none, SET or EXPIRE with one, the hash and sorted-set writers with too
\* few) returns 'ERR wrong number of arguments for <CMD>' and leaves the
\* keyspace unchanged, whatever the keyspace holds.
\* DEL and EXISTS with no key answer 0.
\* ------------------------------------------------------------------------
C22_ArityErrors ==
    \A raw_args \in TooFew :
        /\ dispatch(store, now, raw_args).reply
                = RESPError("ERR wrong number of arguments for " \o raw_args[1])
        /\ dispatch(store, now, raw_args).store = store

\* well-formed requests of the hash family and of the sorted-set family
HashRequests ==
    {<<"HSET">> \o a : a \in HsetInputs} \cup {<<"HMSET">> \o a : a \in HsetInputs}
    \cup {<<"HDEL">> \o a : a \in HdelInputs}
    \cup {<<"HSETNX", K1, "f2", "abc">>, <<"HGET", K1, "f1">>, <<"HLEN", K1>>,
          <<"HINCRBY", K1, "f1", "1">>, <<"HINCRBYFLOAT", K1, "f1", "1">>}
ZsetRequests ==
    {<<"ZADD">> \o a : a \in ZaddInputs} \cup {<<"ZREM">> \o a : a \in ZremInputs}
    \cup {<<"ZINCRBY">> \o a : a \in ZincrbyInputs}
    \cup {<<"ZRANK", K1, "a">>, <<"ZREVRANK", K1, "a">>, <<"ZCARD", K1>>}
WrongTypeReply == RESPError("WRONGTYPE Operation against a key holding the wrong kind of value")

C24_StringCommandsWrongType ==
    Live(store, now, K1) /\ ~Holds(store, K1, "str") =>
        \A raw_args \in {<<"GET", K1>>, <<"INCR", K1>>} :
            dispatch(store, now, raw_args) = Returns(store, WrongTypeReply)

\* the keyspace as it is, and with a text at the key: an integer in
\* several spellings, or no integer
IncrSamples ==
    {store} \cup {DictPut(store, K1, StoreEntry(StrVal(text), None)) :
                    text \in {"abc", "-1", "0", "2", "+1", "01"}}
\* a connection that sends SET k1 abc and then INCR k1
IncrOnText(c) ==
    conn[c].frames = <<Request(<<"SET", "k1", "abc">>), Request(<<"INCR", "k1">>)>>

\* ------------------------------------------------------------------------
\* C25: INCR K on a missing key stores 1 and returns 1; on a key holding
\* the decimal text of an integer n it stores n+1 and returns n+1; on a
\* key holding a string that is no integer it returns 'ERR value is not an
\* integer' and leaves the keyspace unchanged. No other key changes, and
\* the write lock is free again once the reply is written, the error
\* reply too.
\* ------------------------------------------------------------------------
C25_Incr ==
    /\ \A s \in IncrSamples :
        LET out == dispatch(s, now, <<"INCR", K1>>)
            entry == store_get(s, now, K1)
        IN  /\ entry = None =>
                /\ out.reply = IntReply(1)
                /\ out.store = DictPut(s, K1, StoreEntry(StrVal("1"), None))
            /\ entry # None /\ entry[1].value.kind = "str" =>
                LET n == int(entry[1].value.text)
                IN  IF n # None
                    THEN /\ out.reply = IntReply(n[1] + 1)
                         /\ out.store[K1].value = StrVal(str(n[1] + 1))
                         /\ \A k \in DOMAIN s \ {K1} : out.store[k] = s[k]
                    ELSE out = Returns(s, RESPError("ERR value is not an integer"))
    /\ \A c \in Conns :
        /\ conn[c].pc # "install" => lock # Some(c)
        /\ IncrOnText(c) /\ Len(conn[c].out) = 2 =>
            /\ conn[c].out[2] = RESPError("ERR value is not an integer")
            /\ lock = None
            /\ store[K1].value = StrVal("abc")

\* INCR has been refused on a key holding the text abc, and the lock is
\* free
C25_Witness ==
    /\ IncrOnText("c1")
    /\ conn["c1"].out = <<OK, RESPError("ERR value is not an integer")>>
    /\ store[K1].value = StrVal("abc")
    /\ lock = None

\* the flag combinations ZADD accepts, with and without CH
GatingFlags ==
    LET gates == {<< >>, <<"NX">>, <<"XX">>, <<"GT">>, <<"LT">>, <<"XX", "GT">>, <<"XX", "LT">>}
    IN  gates \cup {fl \o <<"CH">> : fl \in gates}
Has(flags, flag) == \E i \in 1..Len(flags) : flags[i] = flag
\* the scores ZADD finds at the key: none when a read finds no key
ScoresFound(s, t, k) ==
    LET got == _get_zset(s, t, k)
    IN  IF got.tag = "ok" THEN got.zset.scores ELSE << >>
\* the scores of the sorted set stored at the key
ScoresStored(s, k) == IF Holds(s, k, "zset") THEN s[k].value.scores ELSE << >>
\* the score the gating rules leave a member with: None for no member
Gated(flags, before, m, sc) ==
    IF m \notin DOMAIN before
    THEN IF Has(flags, "XX") THEN None ELSE Some(sc)
    ELSE IF Has(flags, "NX") THEN Some(before[m])
    ELSE IF Has(flags, "GT") /\ ~(sc > before[m]) THEN Some(before[m])
    ELSE IF Has(flags, "LT") /\ ~(sc < before[m]) THEN Some(before[m])
    ELSE Some(sc)
\* what a pair counts for: 1 for a member added, and with CH 1 for a member
\* whose score changed
GatedCount(flags, before, after, m) ==
    IF m \notin DOMAIN before /\ m \in DOMAIN after THEN 1
    ELSE IF Has(flags, "CH") /\ m \in DOMAIN before /\ after[m] # before[m] THEN 1
    ELSE 0
\* the rules applied to the pairs of a request one after the other: the
\* scores and the count
RECURSIVE GatedAll(_, _, _, _)
GatedAll(flags, scores, tail, n) ==
    IF tail = << >> THEN [scores |-> scores, n |-> n]
    ELSE LET m == tail[2]
             gated == Gated(flags, scores, m, float(tail[1])[1])
             after == IF gated = None THEN scores ELSE DictPut(scores, m, gated[1])
         IN  GatedAll(flags, after, SubSeq(tail, 3, Len(tail)),
                      n + GatedCount(flags, scores, after, m))
\* one pair, and two pairs in one request
PairTails ==
    {<<sc, m>> : sc \in {"0", "1", "2"}, m \in Members}
    \cup {<<"1", "a", "2", "a">>, <<"2", "a", "1", "b">>, <<"1", "a", "1", "a">>,
          <<"2", "b", "1", "b">>}

Hlen(s, t, k) == dispatch(s, t, <<"HLEN", k>>).reply.v

\* ------------------------------------------------------------------------
\* C27: HSET K f1 v1 ... fn vn on a key that is absent or holds a hash
\* returns the count of newly added fields: HLEN K after the call minus
\* HLEN K before it, for every argument list, one that names the same
\* field more than once too.
\* hash_set counts every pair whose field was not there before the call,
\* so a new field named twice counts twice.
\* ------------------------------------------------------------------------
C27_HsetCount ==
    ~Live(store, now, K1) \/ Holds(store, K1, "hash") =>
        \A args \in HsetInputs :
            \A out \in {dispatch(store, now, <<"HSET">> \o args)} :
                out.reply = IntReply(Hlen(out.store, now, K1) - Hlen(store, now, K1))

\* ------------------------------------------------------------------------
\* C28: HDEL K f1 ... fn on a key that is absent or holds a hash returns
\* the count of fields removed: HLEN K before the call minus HLEN K after
\* it, a deleted key counting as length 0, for every argument list, one
\* that names the same field more than once too.
\* hash_del counts every name that was a field before the call, so a
\* field named twice counts twice.
\* ------------------------------------------------------------------------
C28_HdelCount ==
    ~Live(store, now, K1) \/ Holds(store, K1, "hash") =>
        \A args \in HdelInputs :
            \A out \in {dispatch(store, now, <<"HDEL">> \o args)} :
                out.reply = IntReply(Hlen(store, now, K1) - Hlen(out.store, now, K1))

\* ------------------------------------------------------------------------
\* C29: DEL k1 ... kn returns the number of keys it removed: the number of
\* distinct keys named for which EXISTS answered 1 just before the call; a
\* key named twice counts once and a key whose entry has expired counts
\* for nothing.
\* store_delete counts every name that is in the dict, once for each time
\* it is named, whether the entry has expired or not.
\* ------------------------------------------------------------------------
C29_DelCount ==
    \A s \in TwoKeyStores : \A args \in DelInputs :
        dispatch(s, now, <<"DEL">> \o args).reply
            = IntReply(Cardinality({k \in SeqSet(args) :
                            IsInt(dispatch(s, now, <<"EXISTS", k>>).reply, 1)}))

\* the reply's integer, or -1 for a reply that is no integer
RankOf(reply) == IF reply.t = "int" THEN reply.v ELSE -1

\* ------------------------------------------------------------------------
\* C30: for every member M of the sorted set at a live key K, ZRANK K M is
\* the number of members that come before M in (score, member) order,
\* ZREVRANK K M is the number that come after it, and ZRANK K M +
\* ZREVRANK K M = ZCARD K - 1; so after any sequence of ZADD, ZINCRBY and
\* ZREM the ranks of the members are exactly 0 .. ZCARD K - 1, each once.
\* After ZADD has inserted a pair a second time (see C1) the ordered
\* sequence is longer than the score map, and the ranks counted from its
\* end are too large.
\* ------------------------------------------------------------------------
C30_Ranks ==
    Live(store, now, K1) /\ Holds(store, K1, "zset") =>
        LET scores == store[K1].value.scores
            card == RankOf(dispatch(store, now, <<"ZCARD", K1>>).reply)
            Before(m) == {o \in DOMAIN scores : TupleLess(<<scores[o], o>>, <<scores[m], m>>)}
            rank == [m \in DOMAIN scores |-> RankOf(dispatch(store, now, <<"ZRANK", K1, m>>).reply)]
            revrank == [m \in DOMAIN scores |->
                            RankOf(dispatch(store, now, <<"ZREVRANK", K1, m>>).reply)]
        IN  /\ card = Cardinality(DOMAIN scores)
            /\ \A m \in DOMAIN scores :
                /\ rank[m] = Cardinality(Before(m))
                /\ revrank[m] = card - 1 - Cardinality(Before(m))
                /\ rank[m] + revrank[m] = card - 1
            /\ {rank[m] : m \in DOMAIN scores} = 0..(card - 1)
            /\ {revrank[m] : m \in DOMAIN scores} = 0..(card - 1)

\* the members of a score map in (score, member) order, each once
Ordered(scores) ==
    [i \in 1..Cardinality(DOMAIN scores) |->
        CHOOSE m \in DOMAIN scores :
            Cardinality({o \in DOMAIN scores :
                            TupleLess(<<scores[o], o>>, <<scores[m], m>>)}) = i - 1]

\* the elements at the 0-based positions start .. stop of a sequence, a
\* negative index counted from the end, start cut at 0 and stop at the last
\* position
RankSlice(seq, start, stop) ==
    LET from == IF start < 0 THEN Max(0, Len(seq) + start) ELSE start
        to == Min(IF stop < 0 THEN Len(seq) + stop ELSE stop, Len(seq) - 1)
    IN  IF from > to THEN << >> ELSE [i \in 1..(to - from + 1) |-> seq[from + i]]

\* the texts of an array reply of bulk strings
Texts(reply) == [i \in 1..Len(reply.v) |-> reply.v[i].v[1].text]

RankIndexes == {"-3", "-2", "-1", "0", "1", "2", "3"}

\* ------------------------------------------------------------------------
\* C31: ZRANGE K start stop returns the members at ranks start..stop of the
\* ordered sequence of the sorted set's members, negative indices counted
\* from the end, start cut at 0 and stop at length - 1, and the empty list
\* when start > stop after that; ZREVRANGE K start stop returns the reverse
\* of ZRANGE K start stop.
\* After ZADD has inserted a pair a second time (see C1) the page is cut
\* from a sequence that holds a member twice.
\* ------------------------------------------------------------------------
C31_RangeByRank ==
    Live(store, now, K1) /\ Holds(store, K1, "zset") =>
        \A start \in RankIndexes : \A stop \in RankIndexes :
            \A fwd \in {dispatch(store, now, <<"ZRANGE", K1, start, stop>>).reply} :
                \A rev \in {dispatch(store, now, <<"ZREVRANGE", K1, start, stop>>).reply} :
                    /\ fwd.t = "array" /\ rev.t = "array"
                    /\ Texts(fwd) = RankSlice(Ordered(store[K1].value.scores),
                                              int(start)[1], int(stop)[1])
                    /\ Texts(rev) = reversed(Texts(fwd))

\* the score bounds the clients write, each with what it means: the number,
\* or the infinity, and whether the bound itself is left out
ScoreBounds ==
    {[text |-> "-inf", inf |-> -1, num |-> 0, open |-> FALSE],
     [text |-> "+inf", inf |-> 1, num |-> 0, open |-> FALSE]}
    \cup {[text |-> str(n), inf |-> 0, num |-> n, open |-> FALSE] : n \in 0..MaxNum}
    \cup {[text |-> "(" \o str(n), inf |-> 0, num |-> n, open |-> TRUE] : n \in 0..MaxNum}

\* the score is not below the lower bound, not above the upper bound
AtLeast(score, b) ==
    b.inf = -1 \/ (b.inf = 0 /\ IF b.open THEN score > b.num ELSE score >= b.num)
AtMost(score, b) ==
    b.inf = 1 \/ (b.inf = 0 /\ IF b.open THEN score < b.num ELSE score <= b.num)

\* the members of the sequence whose score lies within the bounds, in order
RECURSIVE Within(_, _, _, _)
Within(members, scores, lo, hi) ==
    IF members = << >> THEN << >>
    ELSE (IF AtLeast(scores[members[1]], lo) /\ AtMost(scores[members[1]], hi)
          THEN <<members[1]>> ELSE << >>) \o Within(Tail(members), scores, lo, hi)

\* the elements at the 0-based positions offset .. offset + count - 1, or
\* all from offset on when count = -1
Limited(seq, offset, count) ==
    LET to == IF count = -1 THEN Len(seq) ELSE Min(Len(seq), offset + count)
    IN  IF offset >= to THEN << >> ELSE [i \in 1..(to - offset) |-> seq[offset + i]]

\* the bounds with which LIMIT is tried
LimitBounds == {<<lo, hi>> \in ScoreBounds \X ScoreBounds :
                    <<lo.text, hi.text>> \in {<<"-inf", "+inf">>, <<"1", "2">>, <<"(0", "2">>}}

\* ------------------------------------------------------------------------
\* C32: ZRANGEBYSCORE K min max returns, in ascending (score, member)
\* order, exactly the members whose score satisfies both bounds ("(" number
\* is exclusive, any other number and -inf/+inf are inclusive);
\* ZREVRANGEBYSCORE K max min returns the same members in the reverse order;
\* LIMIT offset count, for offset >= 0 and count >= -1, returns the elements
\* of that sequence at positions offset .. offset+count-1, or all from
\* offset on when count = -1.
\* After ZADD has inserted a pair a second time (see C1) the filtered
\* sequence holds a member twice.
\* ------------------------------------------------------------------------
C32_RangeByScore ==
    Live(store, now, K1) /\ Holds(store, K1, "zset") =>
        LET scores == store[K1].value.scores
        IN  /\ \A lo \in ScoreBounds : \A hi \in ScoreBounds :
                \A members \in {Within(Ordered(scores), scores, lo, hi)} :
                    /\ dispatch(store, now, <<"ZRANGEBYSCORE", K1, lo.text, hi.text>>).reply
                            = _to_array(members)
                    /\ dispatch(store, now, <<"ZREVRANGEBYSCORE", K1, hi.text, lo.text>>).reply
                            = _to_array(reversed(members))
            /\ \A b \in LimitBounds : \A offset \in 0..2 : \A count \in -1..2 :
                \A members \in {Within(Ordered(scores), scores, b[1], b[2])} :
                    /\ dispatch(store, now, <<"ZRANGEBYSCORE", K1, b[1].text, b[2].text,
                                              "LIMIT", str(offset), str(count)>>).reply
                            = _to_array(Limited(members, offset, count))
                    /\ dispatch(store, now, <<"ZREVRANGEBYSCORE", K1, b[2].text, b[1].text,
                                              "LIMIT", str(offset), str(count)>>).reply
                            = _to_array(Limited(reversed(members), offset, count))

\* the field names of a hash that match the pattern, in the hash's order
RECURSIVE FieldsMatching(_, _)
FieldsMatching(inner, pattern) ==
    IF inner = << >> THEN << >>
    ELSE (IF fnmatch(inner[1][1], pattern) THEN <<inner[1][1]>> ELSE << >>)
            \o FieldsMatching(Tail(inner), pattern)

\* the field names of the flat list field, value, ... of an HSCAN reply
FieldsOfPage(reply) == [i \in 1..(Len(reply.v[2].v) \div 2) |-> reply.v[2].v[2 * i - 1].v[1].text]

\* an HSCAN iteration of at most `calls` calls from the cursor on, every call
\* with the cursor the call before returned: whether it ended with the
\* cursor 0, the fields it returned, and whether every next cursor was 0
\* exactly when the page reached the end of the `total` matching fields and
\* cursor + count otherwise
RECURSIVE Iteration(_, _, _, _, _, _, _)
Iteration(s, t, cursor, pattern, count, total, calls) ==
    IF calls = 0 THEN [ended |-> FALSE, fields |-> << >>, cursors |-> TRUE]
    ELSE LET reply == dispatch(s, t, <<"HSCAN", K1, str(cursor), "MATCH", pattern,
                                       "COUNT", count>>).reply
             next == int(reply.v[1].v[1].text)[1]
             rule == IF cursor + int(count)[1] >= total THEN next = 0
                     ELSE next = cursor + int(count)[1] /\ next # 0
             rest == Iteration(s, t, next, pattern, count, total, calls - 1)
         IN  IF next = 0 THEN [ended |-> TRUE, fields |-> FieldsOfPage(reply), cursors |-> rule]
             ELSE [ended |-> rest.ended,
                   fields |-> FieldsOfPage(reply) \o rest.fields,
                   cursors |-> rule /\ rest.cursors]

\* the COUNT values the iterations are tried with; handle_hscan accepts every
\* integer
ScanCounts == {"-1", "0", "1", "2", "3"}

\* ------------------------------------------------------------------------
\* C33: an HSCAN iteration that starts at cursor 0 and passes the returned
\* next_cursor back, with the same MATCH and any COUNT the handler accepts
\* and no mutation of the hash in between, ends with next_cursor 0 and has
\* by then returned every field matching the pattern exactly once;
\* next_cursor is 0 only when the page reached the end of the filtered
\* field sequence, and cursor + count otherwise.
\* The handler accepts COUNT 0 and negative counts: with COUNT 0 the first
\* call answers the cursor 0 and no field; with COUNT -1 the cursor goes
\* 0, -1, -2, ... and never comes back to 0.
\* ------------------------------------------------------------------------
C33_ScanTerminates ==
    Live(store, now, K1) /\ Holds(store, K1, "hash") =>
        \A pattern \in {"*", "f1*"} : \A count \in ScanCounts :
            \A matching \in {FieldsMatching(store[K1].value.inner, pattern)} :
                \A scan \in {Iteration(store, now, 0, pattern, count, Len(matching),
                                       Len(store[K1].value.inner) + 1)} :
                    /\ scan.ended
                    /\ scan.fields = matching
                    /\ scan.cursors

\* the reply is the score as a bulk string
IsScore(reply, score) == reply.t = "bulk" /\ reply.v = Some([kind |-> "float", num |-> score])

\* ------------------------------------------------------------------------
\* C34: a write to a key whose previous entry has expired but is still
\* stored acts as a write to an absent key: HSET K f v (ZADD K s m) creates
\* a fresh live collection, so that an immediately following HGET K f
\* returns v (ZSCORE K m returns s) and EXISTS K returns 1; the new entry
\* does not inherit the expires_at of the dead entry.
\* _put_hash and _put_zset take the expiry from the entry that is stored,
\* dead or not, so the new collection is born expired.
\* ------------------------------------------------------------------------
C34_WriteToExpired ==
    Expired(store, now, K1) =>
        /\ \A out \in {dispatch(store, now, <<"HSET", K1, "f2", "abc">>)} :
            /\ IsInt(out.reply, 1)
            /\ IsText(dispatch(out.store, now, <<"HGET", K1, "f2">>).reply, "abc")
            /\ IsInt(dispatch(out.store, now, <<"EXISTS", K1>>).reply, 1)
            /\ out.store[K1].expires_at = None
        /\ \A out \in {dispatch(store, now, <<"ZADD", K1, "2", "a">>)} :
            /\ IsInt(out.reply, 1)
            /\ IsScore(dispatch(out.store, now, <<"ZSCORE", K1, "a">>).reply, 2)
            /\ IsInt(dispatch(out.store, now, <<"EXISTS", K1>>).reply, 1)
            /\ out.store[K1].expires_at = None

\* ------------------------------------------------------------------------
\* The keyspace as Python objects.
\* A dict or a list is an object with an address; the keyspace dict maps a
\* key to a StoreEntry whose value is a text, the address of a hash's inner
\* dict, or a SortedSet of the addresses of its scores dict and its ranked
\* list. StoreEntry and SortedSet are immutable tuples. The store functions
\* are followed object by object: which objects they allocate, and which
\* they assign to.
\* ------------------------------------------------------------------------

\* no more than MaxObjects objects are allocated
MaxObjects == 7

HashRef(inner) == [kind |-> "hash", inner |-> inner]
SortedSetRef(scores, ranked) == [kind |-> "zset", scores |-> scores, ranked |-> ranked]

\* a new object with the given content
Alloc(h, content) == [heap |-> Append(h, content), addr |-> Len(h) + 1]

\* dict(x) and list(x) that hand back x itself instead of a copy
Copy_same_object(h, addr) == [heap |-> h, addr |-> addr]

\* dict(x), list(x): a new object with the content of the object at addr
Copy(h, addr) == Alloc(h, h[addr])

\* x[k] = v, x.pop(k), x.insert(i, v) on the object at addr: the object has
\* the new content
Assign(h, addr, content) == [h EXCEPT ![addr] = content]

\* the value a StoreEntry refers to, with the contents of its objects
ValueOf(h, value) ==
    CASE value.kind = "hash" -> HashVal(h[value.inner])
      [] value.kind = "zset" -> SortedSet(h[value.scores], h[value.ranked])
      [] OTHER -> value

\* the keyspace reached from the reference ref, with the contents of its
\* objects
KeyspaceAt(h, ref) ==
    [k \in DOMAIN h[ref] |-> StoreEntry(ValueOf(h, h[ref][k].value), h[ref][k].expires_at)]

\* a store function's outcome: the objects, and the keyspace it returns
Returned(h, ref) == [heap |-> h, root |-> ref]

\* {**store, key: entry}: a new dict
NewStoreWith(h, r, key, entry) ==
    LET new_store == Alloc(h, DictPut(h[r], key, entry))
    IN  Returned(new_store.heap, new_store.addr)

\* {k: v for k, v in store.items() if k not in keys}: a new dict
NewStoreWithout(h, r, keys) ==
    LET new_store == Alloc(h, DictWithout(h[r], keys))
    IN  Returned(new_store.heap, new_store.addr)

\* existing.expires_at if existing else None
ExistingExpiry(h, r, key) == IF key \in DOMAIN h[r] THEN h[r][key].expires_at ELSE None

store_set_objects(h, r, t, key, value, ttl_ticks) ==
    LET new_store == Alloc(h, store_set(h[r], t, key, value, ttl_ticks))
    IN  Returned(new_store.heap, new_store.addr)

store_delete_objects(h, r, keys) == NewStoreWithout(h, r, SeqSet(keys))

\* inner = dict(inner) if inner else {}
InnerCopy(h, r, got, key) ==
    IF got.tag = "ok" /\ got.inner # << >> THEN Copy(h, h[r][key].value.inner)
    ELSE Alloc(h, << >>)

\* _put_hash(store, key, inner)
_put_hash_objects(h, r, key, inner) ==
    NewStoreWith(h, r, key, StoreEntry(HashRef(inner), ExistingExpiry(h, r, key)))

hash_set_objects(h, r, t, key, field_value_pairs) ==
    LET got == _get_hash(KeyspaceAt(h, r), t, key)
        inner == InnerCopy(h, r, got, key)
        assigned == Assign(inner.heap, inner.addr,
                           PutFields(inner.heap[inner.addr], field_value_pairs))
    IN  IF got.tag = "err" THEN Returned(h, r)
        ELSE _put_hash_objects(assigned, r, key, inner.addr)

hash_setnx_objects(h, r, t, key, field, value) ==
    LET got == _get_hash(KeyspaceAt(h, r), t, key)
        inner == InnerCopy(h, r, got, key)
        assigned == Assign(inner.heap, inner.addr,
                           PutField(inner.heap[inner.addr], field, value))
    IN  IF got.tag = "err" THEN Returned(h, r)
        ELSE IF HasField(inner.heap[inner.addr], field) THEN Returned(inner.heap, r)
        ELSE _put_hash_objects(assigned, r, key, inner.addr)

hash_del_objects(h, r, t, key, fields) ==
    LET got == _get_hash(KeyspaceAt(h, r), t, key)
        inner == Copy(h, h[r][key].value.inner)
        left == PopFields(inner.heap[inner.addr], fields)
        assigned == Assign(inner.heap, inner.addr, left)
    IN  IF got.tag # "ok" THEN Returned(h, r)
        ELSE IF left = << >> THEN NewStoreWithout(assigned, r, {key})
        ELSE _put_hash_objects(assigned, r, key, inner.addr)

hash_incrby_objects(h, r, t, key, field, increment) ==
    LET got == _get_hash(KeyspaceAt(h, r), t, key)
        inner == InnerCopy(h, r, got, key)
        content == inner.heap[inner.addr]
        current == IF HasField(content, field) THEN FieldValue(content, field) ELSE "0"
        assigned == Assign(inner.heap, inner.addr,
                           PutField(content, field, str(int(current)[1] + increment)))
    IN  IF got.tag = "err" THEN Returned(h, r)
        ELSE IF int(current) = None THEN Returned(inner.heap, r)
        ELSE _put_hash_objects(assigned, r, key, inner.addr)

hash_incrbyfloat_objects(h, r, t, key, field, increment) ==
    LET got == _get_hash(KeyspaceAt(h, r), t, key)
        inner == InnerCopy(h, r, got, key)
        content == inner.heap[inner.addr]
        current == IF HasField(content, field) THEN FieldValue(content, field) ELSE "0"
        assigned == Assign(inner.heap, inner.addr,
                           PutField(content, field, str(float(current)[1] + increment)))
    IN  IF got.tag = "err" THEN Returned(h, r)
        ELSE IF float(current) = None THEN Returned(inner.heap, r)
        ELSE _put_hash_objects(assigned, r, key, inner.addr)

\* zset = zset or _make_zset(): the SortedSet that is stored, or a new one
\* of a new dict and a new list
ZsetOrNew(h, r, got, key) ==
    IF got.tag = "ok"
    THEN [heap |-> h, scores |-> h[r][key].value.scores, ranked |-> h[r][key].value.ranked]
    ELSE LET scores == Alloc(h, << >>)
             ranked == Alloc(scores.heap, << >>)
         IN  [heap |-> ranked.heap, scores |-> scores.addr, ranked |-> ranked.addr]

\* scores = dict(zset.scores); ranked = list(zset.ranked)
ZsetCopies(zset) ==
    LET scores == Copy(zset.heap, zset.scores)
        ranked == Copy(scores.heap, zset.ranked)
    IN  [heap |-> ranked.heap, scores |-> scores.addr, ranked |-> ranked.addr]

\* _put_zset(store, key, SortedSet(scores, ranked))
_put_zset_objects(h, r, key, scores, ranked) ==
    NewStoreWith(h, r, key, StoreEntry(SortedSetRef(scores, ranked), ExistingExpiry(h, r, key)))

zset_add_objects(h, r, t, key, member_score_pairs, nx, xx, gt, lt) ==
    LET got == _get_zset(KeyspaceAt(h, r), t, key)
        copies == ZsetCopies(ZsetOrNew(h, r, got, key))
        acc == ZAddLoop([scores |-> copies.heap[copies.scores],
                         ranked |-> copies.heap[copies.ranked], added |-> 0, changed |-> 0],
                        member_score_pairs, nx, xx, gt, lt)
        assigned == Assign(Assign(copies.heap, copies.scores, acc.scores),
                           copies.ranked, acc.ranked)
    IN  IF got.tag = "err" THEN Returned(h, r)
        ELSE _put_zset_objects(assigned, r, key, copies.scores, copies.ranked)

zset_rem_objects(h, r, t, key, members) ==
    LET got == _get_zset(KeyspaceAt(h, r), t, key)
        copies == ZsetCopies(ZsetOrNew(h, r, got, key))
        acc == ZRemLoop([scores |-> copies.heap[copies.scores],
                         ranked |-> copies.heap[copies.ranked], removed |-> 0], members)
        assigned == Assign(Assign(copies.heap, copies.scores, acc.scores),
                           copies.ranked, acc.ranked)
    IN  IF got.tag # "ok" THEN Returned(h, r)
        ELSE IF DOMAIN acc.scores = {} THEN NewStoreWithout(assigned, r, {key})
        ELSE _put_zset_objects(assigned, r, key, copies.scores, copies.ranked)

\* zset_incrby reads the score and calls zset_add
zset_incrby_objects(h, r, t, key, member, increment) ==
    LET got == _get_zset(KeyspaceAt(h, r), t, key)
        zset == ZsetOrNew(h, r, got, key)
        scores == zset.heap[zset.scores]
        current == IF member \in DOMAIN scores THEN scores[member] ELSE 0
    IN  IF got.tag = "err" THEN Returned(h, r)
        ELSE zset_add_objects(zset.heap, r, t, key, <<<<member, current + increment>>>>,
                              FALSE, FALSE, FALSE, FALSE)

\* a handler reads the reference state._store holds
Hold ==
    /\ held' = Some([ref |-> root, view |-> KeyspaceAt(heap, root)])
    /\ UNCHANGED <<heap, root, store, now, last, codecVars, serverVars>>

\* a handler installs the keyspace a store function returned; a call that
\* would allocate more than MaxObjects objects or take the keyspace beyond
\* the bounds is not made
Installs(out) ==
    /\ Len(out.heap) <= MaxObjects
    /\ StoreBounded(KeyspaceAt(out.heap, out.root))
    /\ heap' = out.heap
    /\ root' = out.root
    /\ UNCHANGED <<held, store, now, last, codecVars, serverVars>>

StoreSet ==
    \E text \in {"1", "abc"} :
        Installs(store_set_objects(heap, root, now, K1, StrVal(text), None))

StoreDelete == Installs(store_delete_objects(heap, root, <<K1>>))

HashSet ==
    \E pairs \in {<<<<"f1", "1">>>>, <<<<"f1", "abc">>, <<"f2", "1">>>>} :
        Installs(hash_set_objects(heap, root, now, K1, pairs))

HashSetnx == Installs(hash_setnx_objects(heap, root, now, K1, "f2", "abc"))

HashDel ==
    \E fields \in {<<"f1">>, <<"f1", "f2">>} :
        Installs(hash_del_objects(heap, root, now, K1, fields))

HashIncrby == Installs(hash_incrby_objects(heap, root, now, K1, "f1", 1))

HashIncrbyfloat == Installs(hash_incrbyfloat_objects(heap, root, now, K1, "f2", 1))

ZsetAdd ==
    \E pairs \in {<<<<"a", 1>>>>, <<<<"a", 2>>>>, <<<<"b", 1>>>>} :
        Installs(zset_add_objects(heap, root, now, K1, pairs, FALSE, FALSE, FALSE, FALSE))

ZsetRem ==
    \E members \in {<<"a">>, <<"a", "b">>} :
        Installs(zset_rem_objects(heap, root, now, K1, members))

ZsetIncrby == Installs(zset_incrby_objects(heap, root, now, K1, "a", 1))

ObjectNext ==
    \/ Hold
    \/ StoreSet \/ StoreDelete
    \/ HashSet \/ HashSetnx \/ HashDel \/ HashIncrby \/ HashIncrbyfloat
    \/ ZsetAdd \/ ZsetRem \/ ZsetIncrby

ObjectSpec == Init /\ [][ObjectNext]_vars

DrainFails(c) ==
    /\ conn[c].pc = "drain"
    /\ Goes(c, [conn[c] EXCEPT !.pc = "closed"])
    /\ UNCHANGED <<store, lock>>

\* two clients, one of whose commands leaves the locked section early
\* (EXPIRE on a missing key, INCR on a text that is no integer) or by an
\* exception (INCR on a hash), depending on which of them comes first
LockScripts ==
    {<<Script(<< >>, <<Request(<<"EXPIRE", "k1", "1">>)>>, << >>),
       Script(<< >>, <<Request(<<"SET", "k1", "1">>)>>, << >>)>>,
     <<Script(<< >>, <<Request(<<"INCR", "k1">>)>>, << >>),
       Script(<< >>, <<Request(<<"SET", "k1", "a">>)>>, << >>)>>,
     <<Script(<< >>, <<Request(<<"INCR", "k1">>)>>, << >>),
       Script(<< >>, <<Request(<<"HSET", "k1", "a", "1">>)>>, << >>)>>}

\* one client whose command raises and one whose last frame never completes
LiveSolos ==
    {Script(<< >>, <<Request(<<"SET", "k1", "1", "EX", "abc">>), Request(<<"PING">>)>>, << >>),
     Script(<< >>, <<Request(<<"INCR", "k1">>)>>, <<"*", "1", CR, LF, "$", "4", CR, LF, "P", "I">>)}

LiveScenarios ==
    {[c \in Conns |-> IF c = "c1" THEN script ELSE Quiet] : script \in LiveSolos}
    \cup {[c \in Conns |-> IF c = "c1" THEN pair[1] ELSE pair[2]] : pair \in LockScripts}

ServerLiveInit ==
    /\ \E scenario \in LiveScenarios : conn = [c \in Conns |-> Task(scenario[c])]
    /\ lock = None
    /\ store = make_store
    /\ now = 0
    /\ last = NoCommand
    /\ CodecIdle
    /\ ObjectsIdle

\* the steps of the handle_client task of connection c
Step(c) ==
    \/ Read(c) \/ ReadFails(c) \/ ParseFrame(c)
    \/ Acquire(c) \/ Install(c) \/ Drain(c) \/ DrainFails(c)

ServerLiveNext == \E c \in Conns : Step(c)

\* the steps of the task other than a round of `while buf`
Awaits(c) ==
    \/ Read(c) \/ ReadFails(c)
    \/ Acquire(c) \/ Install(c) \/ Drain(c) \/ DrainFails(c)

\* WF_vars(ParseFrame(c)) written out: a round of `while buf` can always be
\* taken by a task that is in the loop, and it changes the task
ParseFair(c) ==
    \/ []<>(conn[c].pc # "parse")
    \/ []<><<conn[c].pc = "parse" /\ conn'[c] # conn[c]>>_vars

\* the event loop runs every task that is ready: a task that stays able to
\* take a step takes one
ServerLiveSpec ==
    /\ ServerLiveInit
    /\ [][ServerLiveNext]_vars
    /\ \A c \in Conns : WF_vars(Awaits(c)) /\ ParseFair(c)

\* ------------------------------------------------------------------------
\* C36: every connection handler eventually closes its writer once the
\* reader returns EOF or an error is raised while reading, dispatching or
\* writing; the writer is closed on every exit path, and nothing is written
\* to it after it is closed.
\* ------------------------------------------------------------------------
C36_WriterClosed ==
    /\ \A c \in Conns : <>(conn[c].pc = "closed")
    /\ [][\A c \in Conns : conn[c].pc = "closed" => conn'[c] = conn[c]]_vars

\* a handler has closed its writer after an exception in a handler, with
\* frames of the client still unanswered
C36_Witness ==
    \E c \in Conns :
        /\ conn[c].pc = "closed"
        /\ Inbox(c) # << >>
        /\ conn[c].out # << >>

\* ------------------------------------------------------------------------
\* C37: the write lock is released on every path out of a mutating handler,
\* including the early returns inside the locked section (INCR on a
\* non-integer value, EXPIRE on a missing key) and an exception raised
\* there, and no handler tries to acquire the lock while holding it; hence
\* every write command waiting for the lock eventually acquires it.
\* ------------------------------------------------------------------------
C37_LockReleased ==
    /\ [](\A c \in Conns : lock = Some(c) <=> conn[c].pc = "install")
    /\ \A c \in Conns : (conn[c].pc = "lock") ~> (conn[c].pc = "install")

\* a handler has left the locked section by the early return of EXPIRE on a
\* missing key, the lock is free and the other handler waits for it
C37_Witness ==
    \E c \in Conns : \E d \in Conns \ {c} :
        /\ conn[c].pc = "drain"
        /\ conn[c].args = <<"EXPIRE", K1, "1">>
        /\ conn[c].out = <<IntReply(0)>>
        /\ lock = None
        /\ conn[d].pc = "lock"

\* ------------------------------------------------------------------------
\* C38: KEYS and EXISTS agree on which keys are alive at every instant,
\* the instant at which now equals a key's expires_at included: KEYS * lists
\* a key if and only if EXISTS of that key answers 1 and GET of it answers a
\* value.
\* ------------------------------------------------------------------------
ListedByKeys(s, t, k) == k \in handle_keys(s, t, <<"*">>).reply.v
CountedByExists(s, t, k) == handle_exists(s, t, <<k>>).reply = IntReply(1)
AnsweredByGet(s, t, k) == handle_get(s, t, <<k>>).reply.v # None

C38_KeysExistsAgree ==
    \A k \in Keys :
        /\ ListedByKeys(store, now, k) <=> CountedByExists(store, now, k)
        /\ ListedByKeys(store, now, k) <=> AnsweredByGet(store, now, k)

\* ------------------------------------------------------------------------
\* C39: HGET returns the stored text as a value for every text: after
\* HSET K f v, HGET K f replies with the bulk string v for every v, a v that
\* begins with WRONGTYPE included; a stored value is never turned into an
\* error reply.
\* ------------------------------------------------------------------------
\* the value HSET stores in field f: that of the last pair that names f
LastValueOf(args, f) ==
    LET at == {i \in 1..Len(args) : i > 1 /\ i % 2 = 0 /\ args[i] = f}
    IN  args[(CHOOSE i \in at : \A j \in at : j <= i) + 1]

\* HGET of every field named by a HSET that has answered with a count
HgetAfterHset(s, t, args) ==
    \A out \in {handle_hset(s, t, args)} :
        out.reply.t = "int" =>
            \A i \in {j \in 2..Len(args) : j % 2 = 0} :
                handle_hget(out.store, t, <<args[1], args[i]>>).reply
                    = BulkString(Some(StrVal(LastValueOf(args, args[i]))))

C39_HgetReturnsValue ==
    \A args \in HsetInputs \cup {<<K1, "f1", WrongTypeLike>>} :
        HgetAfterHset(store, now, args)

\* ------------------------------------------------------------------------
\* C40: INCR rewrites the key as a SET without TTL: after a successful INCR
\* the key has no expiry and TTL answers -1, whether or not the key had an
\* expiry before.
\* ------------------------------------------------------------------------
C40_IncrDropsExpiry ==
    \A k \in Keys :
        \A out \in {handle_incr(store, now, <<k>>)} :
            out.reply.t = "int" =>
                /\ out.store[k].expires_at = None
                /\ handle_ttl(out.store, now, <<k>>).reply = IntReply(-1)
                /\ handle_get(out.store, now, <<k>>).reply
                        = BulkString(Some(StrVal(str(out.reply.v))))

\* INCR succeeds on a live key that holds an integer and has an expiry
C40_Witness ==
    /\ store_get(store, now, K1) # None
    /\ store[K1].expires_at # None
    /\ handle_incr(store, now, <<K1>>).reply.t = "int"
    /\ handle_ttl(store, now, <<K1>>).reply # IntReply(-1)

====
